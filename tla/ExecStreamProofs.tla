-------------------------- MODULE ExecStreamProofs --------------------------
(***************************************************************************)
(* What a client receives of a command's output is what was captured, in   *)
(* protocol order, for any sizes of writes, buffers and frames.            *)
(***************************************************************************)
EXTENDS ExecStream, SequenceTheorems, FiniteSetTheorems, WellFoundedInduction, TLAPS

-----------------------------------------------------------------------------
(* Induction over the natural numbers, stated for a set of numbers.        *)
LEMMA Induction ==
  ASSUME NEW S, 0 \in S, \A n \in Nat : n \in S => n + 1 \in S
  PROVE  Nat \subseteq S
<1> SUFFICES ASSUME Nat \ S # {} PROVE FALSE
  OBVIOUS
<1>1. IsWellFoundedOn(OpToRel(<, Nat), Nat)
  BY NatLessThanWellFounded, Zenon
<1>2. PICK n \in Nat \ S : \A m \in Nat \ S : ~(<<m, n>> \in OpToRel(<, Nat))
  BY <1>1, WFMin, Zenon
<1>3. n # 0 /\ n - 1 \in Nat /\ n - 1 < n
  OBVIOUS
<1>4. <<n - 1, n>> \in OpToRel(<, Nat)
  BY <1>3 DEF OpToRel
<1>5. n - 1 \in S
  BY <1>2, <1>3, <1>4, Zenon
<1> QED
  BY <1>3, <1>5

-----------------------------------------------------------------------------
(* The recursive function behind Joined, as a predicate.                   *)
Piece(g, o, k) == IF g[k].name = o THEN g[k].data ELSE << >>

Joins(f, g, o, n) ==
  f = [k \in 0..n |-> IF k = 0 THEN << >> ELSE f[k - 1] \o Piece(g, o, k)]

(* What its values are.                                                    *)
LEMMA JoinsAt ==
  ASSUME NEW f, NEW g, NEW o, NEW n \in Nat, Joins(f, g, o, n)
  PROVE  f[0] = << >> /\ \A k \in 0..n - 1 : f[k + 1] = f[k] \o Piece(g, o, k + 1)
<1>1. \A k \in 0..n : f[k] = IF k = 0 THEN << >> ELSE f[k - 1] \o Piece(g, o, k)
  BY DEF Joins
<1>2. f[0] = << >>
  <2>1. 0 \in 0..n
    OBVIOUS
  <2> QED
    BY <1>1, <2>1, Zenon
<1>3. ASSUME NEW k \in 0..n - 1 PROVE f[k + 1] = f[k] \o Piece(g, o, k + 1)
  <2>1. k + 1 \in 0..n /\ k + 1 # 0 /\ (k + 1) - 1 = k
    OBVIOUS
  <2> QED
    BY <1>1, <2>1, Zenon
<1> QED
  BY <1>2, <1>3, Zenon

(* It exists for every number of messages.                                 *)
LEMMA JoinsExist ==
  ASSUME NEW g, NEW o, NEW n \in Nat
  PROVE  \E f : Joins(f, g, o, n)
<1> DEFINE S == {m \in Nat : \E f : Joins(f, g, o, m)}
<1>1. 0 \in S
  <2>1. Joins([k \in 0..0 |-> << >>], g, o, 0)
    BY DEF Joins
  <2> QED
    BY <2>1
<1>2. ASSUME NEW m \in Nat, m \in S PROVE m + 1 \in S
  <2>1. PICK f : Joins(f, g, o, m)
    BY <1>2
  <2> DEFINE h == [k \in 0..m + 1 |-> IF k = m + 1 THEN f[m] \o Piece(g, o, m + 1) ELSE f[k]]
  <2>2. \A k \in 0..m : f[k] = IF k = 0 THEN << >> ELSE f[k - 1] \o Piece(g, o, k)
    BY <2>1, Zenon DEF Joins
  <2>3. \A k \in 0..m + 1 : h[k] = IF k = 0 THEN << >> ELSE h[k - 1] \o Piece(g, o, k)
    BY <2>2
  <2>4. Joins(h, g, o, m + 1)
    BY <2>3, Zenon DEF Joins
  <2> QED
    BY <2>4
<1>3. Nat \subseteq S
  <2> HIDE DEF S
  <2> QED
    BY <1>1, <1>2, Induction
<1> QED
  BY <1>3

(* Two of them agree where the messages do.                                *)
LEMMA JoinsAgree ==
  ASSUME NEW g, NEW h, NEW o, NEW n \in Nat, NEW e, NEW f,
         Joins(e, g, o, n), Joins(f, h, o, n + 1), \A k \in 1..n : g[k] = h[k]
  PROVE  e[n] = f[n]
<1> DEFINE S == {k \in Nat : k <= n => e[k] = f[k]}
<1>1. 0 \in S
  <2>1. n + 1 \in Nat
    OBVIOUS
  <2>2. e[0] = << >>
    BY JoinsAt, Zenon
  <2>3. f[0] = << >>
    BY <2>1, JoinsAt, Zenon
  <2> QED
    BY <2>2, <2>3
<1>2. ASSUME NEW k \in Nat, k \in S PROVE k + 1 \in S
  <2> SUFFICES ASSUME k + 1 <= n PROVE e[k + 1] = f[k + 1]
    OBVIOUS
  <2>1. e[k] = f[k]
    BY <1>2
  <2>2. k \in 0..n - 1 /\ k \in 0..(n + 1) - 1 /\ n + 1 \in Nat
    OBVIOUS
  <2>3. e[k + 1] = e[k] \o Piece(g, o, k + 1)
    BY <2>2, JoinsAt, Zenon
  <2>4. f[k + 1] = f[k] \o Piece(h, o, k + 1)
    BY <2>2, JoinsAt, Zenon
  <2>5. Piece(g, o, k + 1) = Piece(h, o, k + 1)
    BY DEF Piece
  <2> QED
    BY <2>1, <2>3, <2>4, <2>5, Zenon
<1>3. Nat \subseteq S
  <2> HIDE DEF S
  <2> QED
    BY <1>1, <1>2, Induction
<1> QED
  BY <1>3

(* Joined is its last value.                                               *)
LEMMA JoinedIs ==
  ASSUME NEW g, NEW o, Len(g) \in Nat
  PROVE  \E f : Joins(f, g, o, Len(g)) /\ Joined(g, o) = f[Len(g)]
<1> DEFINE f == CHOOSE f : Joins(f, g, o, Len(g))
<1>1. Joins(f, g, o, Len(g))
  BY JoinsExist
<1>2. Joined(g, o) = f[Len(g)]
  BY DEF Joined, Joins, Piece
<1> QED
  BY <1>1, <1>2, Zenon

(* Nothing joins to nothing; one more message adds its data, if it is of   *)
(* this output.                                                            *)
LEMMA JoinedEmpty ==
  ASSUME NEW o PROVE Joined(<< >>, o) = << >>
<1>1. Len(<< >>) = 0
  BY EmptySeq
<1>2. PICK f : Joins(f, << >>, o, 0) /\ Joined(<< >>, o) = f[0]
  BY <1>1, JoinedIs
<1> QED
  BY <1>2 DEF Joins

(* One more message adds its data, if it is of this output.                *)
LEMMA JoinedAppend ==
  ASSUME NEW M, NEW g \in Seq(M), NEW m \in M, NEW o
  PROVE  Joined(Append(g, m), o) = Joined(g, o) \o (IF m.name = o THEN m.data ELSE << >>)
<1> DEFINE h == Append(g, m)
           n == Len(g)
<1>1. /\ h \in Seq(M) /\ n \in Nat /\ Len(h) = n + 1
      /\ h[n + 1] = m /\ \A k \in 1..n : g[k] = h[k]
  BY AppendProperties, LenProperties
<1> HIDE DEF h, n
<1>2. PICK e : Joins(e, g, o, n) /\ Joined(g, o) = e[n]
  BY <1>1, JoinedIs DEF n
<1>3. PICK f : Joins(f, h, o, n + 1) /\ Joined(h, o) = f[n + 1]
  BY <1>1, JoinedIs
<1>4. e[n] = f[n]
  BY <1>1, <1>2, <1>3, JoinsAgree
<1>5. f[n + 1] = f[n] \o Piece(h, o, n + 1)
  <2>1. n + 1 \in Nat /\ n \in 0..(n + 1) - 1
    BY <1>1
  <2> QED
    BY <1>3, <2>1, JoinsAt, Zenon
<1> QED
  BY <1>1, <1>2, <1>3, <1>4, <1>5 DEF Piece, h

-----------------------------------------------------------------------------
(* Parts of sequences.  Slice(s, m, n) is s without its first m elements   *)
(* and without those after the n-th.                                       *)
Slice(s, m, n) == SubSeq(s, m + 1, n)

(* A slice of a sequence: its elements and its length.                     *)
LEMMA SliceProperties ==
  ASSUME NEW S, NEW s \in Seq(S), NEW m \in Nat, NEW n \in Nat, m <= n, n <= Len(s)
  PROVE  /\ Slice(s, m, n) \in Seq(S) /\ Len(Slice(s, m, n)) = n - m
         /\ \A i \in 1..n - m : Slice(s, m, n)[i] = s[m + i]
<1>1. Len(s) \in Nat /\ \A i \in 1..Len(s) : s[i] \in S
  BY LenProperties, ElementOfSeq
<1>2. m + 1 \in Int /\ n \in Int /\ \A i \in m + 1..n : s[i] \in S
  BY <1>1
<1>3. /\ SubSeq(s, m + 1, n) \in Seq(S)
      /\ Len(SubSeq(s, m + 1, n)) = IF m + 1 <= n THEN n - (m + 1) + 1 ELSE 0
      /\ \A i \in 1..n - (m + 1) + 1 : SubSeq(s, m + 1, n)[i] = s[(m + 1) + i - 1]
  BY <1>2, SubSeqProperties
<1>4. n - (m + 1) + 1 = n - m /\ \A i \in 1..n - m : (m + 1) + i - 1 = m + i
  OBVIOUS
<1> QED
  BY <1>3, <1>4 DEF Slice

(* The first n elements of a sequence, or all of them.                     *)
LEMMA TakeProperties ==
  ASSUME NEW S, NEW s \in Seq(S), NEW n \in Nat
  PROVE  /\ AtMost(n, Len(s)) \in Nat /\ AtMost(n, Len(s)) <= Len(s) /\ AtMost(n, Len(s)) <= n
         /\ Take(s, n) \in Seq(S) /\ Len(Take(s, n)) = AtMost(n, Len(s))
         /\ \A i \in 1..AtMost(n, Len(s)) : Take(s, n)[i] = s[i]
<1>1. Len(s) \in Nat
  BY LenProperties
<1> DEFINE k == AtMost(n, Len(s))
<1>2. k \in Nat /\ 0 \in Nat /\ 0 <= k /\ k <= Len(s) /\ k <= n
  BY <1>1 DEF AtMost
<1>3. Take(s, n) = Slice(s, 0, k)
  BY DEF Take, Slice
<1> HIDE DEF k
<1>4. /\ Slice(s, 0, k) \in Seq(S) /\ Len(Slice(s, 0, k)) = k - 0
      /\ \A i \in 1..k - 0 : Slice(s, 0, k)[i] = s[0 + i]
  BY <1>2, SliceProperties, Zenon
<1>5. k - 0 = k /\ \A i \in 1..k : 0 + i = i
  BY <1>2
<1> QED
  BY <1>2, <1>3, <1>4, <1>5 DEF k

(* Taking from a longer sequence.                                          *)
LEMMA TakeAll ==
  ASSUME NEW S, NEW s \in Seq(S), NEW n \in Nat, Len(s) <= n
  PROVE  Take(s, n) = s
<1>1. AtMost(n, Len(s)) = Len(s)
  BY LenProperties DEF AtMost
<1> QED
  BY <1>1, SubSeqFull DEF Take

(* When n elements are there already, a longer sequence has the same first *)
(* n.                                                                      *)
LEMMA TakeWithin ==
  ASSUME NEW S, NEW s \in Seq(S), NEW t \in Seq(S), NEW n \in Nat, n <= Len(s)
  PROVE  Take(s \o t, n) = Take(s, n)
<1> DEFINE u == s \o t
<1>1. /\ u \in Seq(S) /\ Len(s) \in Nat /\ Len(t) \in Nat /\ Len(u) = Len(s) + Len(t)
      /\ \A i \in 1..Len(s) + Len(t) : u[i] = IF i <= Len(s) THEN s[i] ELSE t[i - Len(s)]
  BY ConcatProperties, LenProperties
<1> HIDE DEF u
<1>2. AtMost(n, Len(s)) = n /\ AtMost(n, Len(u)) = n
  BY <1>1 DEF AtMost
<1>3. Take(s, n) \in Seq(S) /\ Len(Take(s, n)) = n /\ \A i \in 1..n : Take(s, n)[i] = s[i]
  BY <1>2, TakeProperties, Zenon
<1>4. Take(u, n) \in Seq(S) /\ Len(Take(u, n)) = n /\ \A i \in 1..n : Take(u, n)[i] = u[i]
  <2>1. u \in Seq(S)
    BY <1>1
  <2> QED
    BY <1>2, <2>1, TakeProperties, Zenon
<1>5. \A i \in 1..n : u[i] = s[i]
  BY <1>1
<1> QED
  BY <1>3, <1>4, <1>5, SeqEqual DEF u

(* When fewer are, the first n of the longer one go on in what was         *)
(* appended.                                                               *)
LEMMA TakeBeyond ==
  ASSUME NEW S, NEW s \in Seq(S), NEW t \in Seq(S), NEW n \in Nat, Len(s) <= n
  PROVE  Take(s \o t, n) = s \o Take(t, n - Len(s))
<1> DEFINE m == n - Len(s)
           k == AtMost(m, Len(t))
           u == s \o t
           v == Take(t, m)
           w == s \o v
<1>1. /\ u \in Seq(S) /\ Len(s) \in Nat /\ Len(t) \in Nat /\ Len(u) = Len(s) + Len(t)
      /\ \A i \in 1..Len(s) + Len(t) : u[i] = IF i <= Len(s) THEN s[i] ELSE t[i - Len(s)]
  BY ConcatProperties, LenProperties
<1> HIDE DEF u
<1>2. m \in Nat /\ k \in Nat /\ k <= Len(t) /\ AtMost(n, Len(u)) = Len(s) + k
  BY <1>1 DEF AtMost
<1> HIDE DEF m
<1>3. v \in Seq(S) /\ Len(v) = k /\ \A i \in 1..k : v[i] = t[i]
  BY <1>2, TakeProperties
<1> HIDE DEF k, v
<1>4. /\ Take(u, n) \in Seq(S) /\ Len(Take(u, n)) = Len(s) + k
      /\ \A i \in 1..Len(s) + k : Take(u, n)[i] = u[i]
  <2>1. u \in Seq(S) /\ AtMost(n, Len(u)) = Len(s) + k
    BY <1>1, <1>2
  <2> QED
    BY <2>1, TakeProperties
<1>5. /\ w \in Seq(S) /\ Len(w) = Len(s) + k
      /\ \A i \in 1..Len(s) + k : w[i] = IF i <= Len(s) THEN s[i] ELSE v[i - Len(s)]
  BY <1>3, ConcatProperties
<1> HIDE DEF w
<1>6. \A i \in 1..Len(s) + k : w[i] = u[i]
  <2> SUFFICES ASSUME NEW i \in 1..Len(s) + k PROVE w[i] = u[i]
    OBVIOUS
  <2>1. i \in 1..Len(s) + Len(t)
    BY <1>1, <1>2
  <2>2. CASE i <= Len(s)
    BY <1>1, <1>5, <2>1, <2>2
  <2>3. CASE ~(i <= Len(s))
    <3>1. w[i] = v[i - Len(s)] /\ u[i] = t[i - Len(s)]
      BY <1>1, <1>5, <2>1, <2>3
    <3>2. i - Len(s) \in 1..k
      BY <1>1, <1>2, <2>3
    <3> QED
      BY <1>3, <3>1, <3>2
  <2> QED
    BY <2>2, <2>3
<1>7. w = Take(u, n)
  BY <1>4, <1>5, <1>6, SeqEqual
<1> QED
  BY <1>7 DEF m, u, v, w

-----------------------------------------------------------------------------
(* The capture: what limitedBuffer.Write keeps of what a command writes.   *)
CaptureInv ==
  /\ written \in [Outputs -> Seq(Bytes)] /\ buf \in [Outputs -> Seq(Bytes)]
  /\ truncated \in [Outputs -> BOOLEAN]
  /\ CaptureExact

(* A write keeps the capture exact: below the limit it adds what fits, and *)
(* behind it nothing.                                                      *)
LEMMA WriteKeeps ==
  ASSUME CaptureInv, NEW o \in Outputs, NEW p \in Chunks, Write(o, p)
  PROVE  CaptureInv'
<1> DEFINE w == written[o]
           remaining == MaxOutputBytes - Len(buf[o])
<1>1. w \in Seq(Bytes) /\ p \in Seq(Bytes) /\ MaxOutputBytes \in Nat
  BY TextAssumption, LimitsAssumption DEF CaptureInv
<1>2. Len(w) \in Nat /\ Len(p) \in Nat /\ w \o p \in Seq(Bytes) /\ Len(w \o p) = Len(w) + Len(p)
  BY <1>1, LenProperties, ConcatProperties
<1>3. buf[o] = Take(w, MaxOutputBytes) /\ (truncated[o] <=> Len(w) > MaxOutputBytes)
  BY DEF CaptureInv, CaptureExact
<1>4. written' = [written EXCEPT ![o] = w \o p]
  BY DEF Write
<1>5. written' \in [Outputs -> Seq(Bytes)] /\ written'[o] = w \o p
  BY <1>2, <1>4 DEF CaptureInv
<1>6. CASE truncated[o]
  <2>1. UNCHANGED <<buf, truncated>>
    BY <1>6, Zenon DEF Write
  <2>2. Take(w \o p, MaxOutputBytes) = Take(w, MaxOutputBytes)
    BY <1>1, <1>2, <1>3, <1>6, TakeWithin
  <2>3. Len(w \o p) > MaxOutputBytes
    BY <1>1, <1>2, <1>3, <1>6
  <2> HIDE DEF w
  <2>4. CaptureExact'
    <3> SUFFICES ASSUME NEW q \in Outputs
                 PROVE  /\ buf'[q] = Take(written'[q], MaxOutputBytes)
                        /\ truncated'[q] <=> Len(written'[q]) > MaxOutputBytes
      BY DEF CaptureExact
    <3>1. CASE q = o
      BY <1>3, <1>5, <1>6, <2>1, <2>2, <2>3, <3>1, Zenon
    <3>2. CASE q # o
      <4>1. written'[q] = written[q]
        BY <1>4, <3>2 DEF CaptureInv
      <4> QED
        BY <2>1, <4>1, Zenon DEF CaptureInv, CaptureExact
    <3> QED
      BY <3>1, <3>2
  <2> QED
    BY <1>5, <2>1, <2>4 DEF CaptureInv
<1>7. CASE ~truncated[o]
  <2>1. Len(w) <= MaxOutputBytes
    BY <1>1, <1>2, <1>3, <1>7
  <2>2. buf[o] = w
    BY <1>1, <1>3, <2>1, TakeAll
  <2>3. buf' = [buf EXCEPT ![o] = w \o Take(p, remaining)]
    BY <1>7, <2>2, Zenon DEF Write
  <2>4. truncated' = [truncated EXCEPT ![o] = Len(p) > remaining]
    BY <1>7, Zenon DEF Write
  <2>5. w \o Take(p, remaining) = Take(w \o p, MaxOutputBytes)
    BY <1>1, <2>1, <2>2, TakeBeyond, Zenon
  <2>6. (Len(p) > remaining) <=> Len(w \o p) > MaxOutputBytes
    BY <1>1, <1>2, <2>2
  <2>7. Take(w \o p, MaxOutputBytes) \in Seq(Bytes)
    BY <1>1, <1>2, TakeProperties, Zenon
  <2> HIDE DEF w, remaining
  <2>8. buf' \in [Outputs -> Seq(Bytes)] /\ buf'[o] = Take(w \o p, MaxOutputBytes)
    BY <2>3, <2>5, <2>7 DEF CaptureInv
  <2>9. /\ truncated' \in [Outputs -> BOOLEAN]
        /\ truncated'[o] <=> Len(w \o p) > MaxOutputBytes
        /\ \A q \in Outputs : q # o => truncated'[q] = truncated[q]
    <3> DEFINE c == (Len(p) > remaining)
    <3>1. c \in BOOLEAN /\ (c <=> Len(w \o p) > MaxOutputBytes) /\ truncated' = [truncated EXCEPT ![o] = c]
      BY <2>4, <2>6
    <3> HIDE DEF c
    <3> QED
      BY <3>1, Zenon DEF CaptureInv
  <2>10. \A q \in Outputs : q # o => written'[q] = written[q] /\ buf'[q] = buf[q]
    BY <1>4, <2>3 DEF CaptureInv
  <2>11. CaptureExact'
    <3> SUFFICES ASSUME NEW q \in Outputs
                 PROVE  /\ buf'[q] = Take(written'[q], MaxOutputBytes)
                        /\ truncated'[q] <=> Len(written'[q]) > MaxOutputBytes
      BY DEF CaptureExact
    <3>1. CASE q = o
      BY <1>5, <2>8, <2>9, <3>1, Zenon
    <3>2. CASE q # o
      BY <2>9, <2>10, <3>2, Zenon DEF CaptureInv, CaptureExact
    <3> QED
      BY <3>1, <3>2
  <2> QED
    BY <1>5, <2>8, <2>9, <2>11 DEF CaptureInv
<1> QED
  BY <1>6, <1>7

(* The buffers hold exactly the first MaxOutputBytes that the command      *)
(* wrote to each output, and are marked truncated exactly when there were  *)
(* more, whatever the sizes of the writes.                                 *)
THEOREM CaptureInvariant == Spec => []CaptureInv
<1>1. Init => CaptureInv
  <2> SUFFICES ASSUME Init PROVE CaptureInv
    OBVIOUS
  <2>1. /\ written = [o \in Outputs |-> << >>] /\ buf = [o \in Outputs |-> << >>]
        /\ truncated = [o \in Outputs |-> FALSE]
    BY DEF Init
  <2>2. << >> \in Seq(Bytes) /\ Len(<< >>) = 0
    BY EmptySeq
  <2>3. MaxOutputBytes \in Nat /\ Len(<< >>) <= MaxOutputBytes /\ ~(0 > MaxOutputBytes)
    BY <2>2, LimitsAssumption
  <2>4. Take(<< >>, MaxOutputBytes) = << >>
    BY <2>2, <2>3, TakeAll, Zenon
  <2> QED
    BY <2>1, <2>2, <2>3, <2>4 DEF CaptureInv, CaptureExact
<1>2. ASSUME CaptureInv, [Next]_vars PROVE CaptureInv'
  <2>1. ASSUME NEW o \in Outputs, NEW p \in Chunks, Write(o, p) PROVE CaptureInv'
    BY <1>2, <2>1, WriteKeeps
  <2>2. CASE UNCHANGED captureVars
    BY <1>2, <2>2 DEF CaptureInv, CaptureExact, captureVars
  <2>3. (\E o \in Outputs, p \in Chunks : Write(o, p)) \/ UNCHANGED captureVars
    BY <1>2 DEF Next, vars, Refuse, Finish, SendFrame, SendResult, GiveUp, Lose,
       ClientLeaves, ExecStreamReads, ExecReads, Receives
  <2> QED
    BY <2>1, <2>2, <2>3
<1> QED
  BY <1>1, <1>2, PTL DEF Spec

(* What a limitedBuffer holds is what the command wrote up to the limit,   *)
(* and it says "truncated" exactly when there was more.                    *)
THEOREM CaptureIsExact == Spec => []CaptureExact
<1>1. CaptureInv => CaptureExact
  BY DEF CaptureInv
<1> QED
  BY <1>1, CaptureInvariant, PTL

-----------------------------------------------------------------------------
(* The stream: frames on their way, and where guest and host stand.        *)
OutputFrames == [kind : {"output"}, name : Outputs, data : Seq(Bytes \cup {"r"})]

Frames == OutputFrames \cup {[kind |-> "result"], [kind |-> "refused"]}

Nothing == [o \in Outputs |-> << >>]

StreamTypes ==
  /\ stream \in BOOLEAN /\ client \in BOOLEAN
  /\ guest \in {"run", "send", "closed"} /\ host \in {"read", "result", "failed"}
  /\ rest \in [Outputs -> Seq(Bytes)]
  /\ wire \in Seq(Frames) /\ got \in Seq(OutputFrames)

(* Nothing is sent before the command is finished, Exec's one message is   *)
(* sent last, and a frame that is not output is the last one.  The host    *)
(* has the result only when nothing is left to send or to read.            *)
PhaseInv ==
  /\ guest = "run" => wire = << >> /\ got = << >> /\ rest = Nothing
  /\ ~stream /\ guest = "send" => wire = << >> /\ got = << >>
  /\ host = "result" => wire = << >> /\ guest = "closed" /\ (stream => rest = Nothing)
  /\ \A k \in 1..Len(wire) :
       wire[k].kind # "output" =>
         k = Len(wire) /\ guest = "closed" /\ (stream => rest = Nothing)

Late(m) == m.kind = "output" /\ m.name = "stderr"
Early(m) == m.kind = "output" /\ m.name = "stdout"

(* No stdout after stderr: among what was received, among what is on its   *)
(* way, from one to the other, and from either to what is still to send.   *)
OrderInv ==
  /\ \A j, k \in 1..Len(got) : j < k /\ Late(got[j]) => Late(got[k])
  /\ \A j, k \in 1..Len(wire) : j < k /\ Late(wire[j]) => ~Early(wire[k])
  /\ \A j \in 1..Len(got), k \in 1..Len(wire) : Late(got[j]) => ~Early(wire[k])
  /\ stream /\ rest["stdout"] # << >> =>
       (\A j \in 1..Len(got) : ~Late(got[j])) /\ (\A k \in 1..Len(wire) : ~Late(wire[k]))

StreamInv == StreamTypes /\ PhaseInv /\ OrderInv

(* What encoding and dropping leave of a text.                             *)
LEMMA TransmittedProperties ==
  ASSUME NEW s \in Seq(Bytes)
  PROVE  /\ Transmitted(s) \in Seq(Bytes \cup {"r"}) /\ Len(Transmitted(s)) = Len(s)
         /\ \A k \in 1..Len(s) : Transmitted(s)[k] = IF Whole(s, k) THEN s[k] ELSE "r"
<1>1. Len(s) \in Nat /\ \A k \in 1..Len(s) : s[k] \in Bytes
  BY LenProperties, ElementOfSeq
<1>2. Transmitted(s) \in [1..Len(s) -> Bytes \cup {"r"}]
  BY <1>1 DEF Transmitted
<1>3. Transmitted(s) \in Seq(Bytes \cup {"r"}) /\ Len(Transmitted(s)) = Len(s)
  BY <1>1, <1>2
<1> QED
  BY <1>3 DEF Transmitted

(* What is left behind the first n elements.                               *)
LEMMA DropProperties ==
  ASSUME NEW s \in Seq(Bytes), NEW n \in Nat
  PROVE  Drop(s, n) \in Seq(Bytes)
<1>1. Len(s) \in Nat /\ \A k \in 1..Len(s) : s[k] \in Bytes
  BY LenProperties, ElementOfSeq
<1>2. n + 1 \in Int /\ Len(s) \in Int /\ \A k \in n + 1..Len(s) : s[k] \in Bytes
  BY <1>1
<1> QED
  BY <1>2, SubSeqProperties DEF Drop

(* A frame of the output kind is one of OutputFrames.                      *)
LEMMA FrameKinds ==
  /\ \A m \in OutputFrames : m.kind = "output" /\ m.name \in Outputs /\ m.data \in Seq(Bytes \cup {"r"})
  /\ \A m \in Frames : m.kind = "output" => m \in OutputFrames
  /\ [kind |-> "result"] \in Frames /\ [kind |-> "refused"] \in Frames /\ OutputFrames \subseteq Frames
  BY DEF OutputFrames, Frames

(* streamResult sends a frame of one output.                               *)
LEMMA SendFrameKeeps ==
  ASSUME StreamInv, NEW o \in Outputs, SendFrame(o)
  PROVE  StreamInv'
<1> DEFINE m == Output(o, Transmitted(Take(rest[o], MaxStreamFrameBytes)))
<1>1. /\ guest = "send" /\ stream /\ host = "read" /\ rest[o] # << >>
      /\ o = "stderr" => rest["stdout"] = << >>
      /\ wire' = Append(wire, m) /\ rest' = [rest EXCEPT ![o] = Drop(rest[o], MaxStreamFrameBytes)]
      /\ UNCHANGED <<stream, guest, host, client, got>>
  BY DEF SendFrame
<1>2. m \in OutputFrames /\ m \in Frames /\ m.kind = "output" /\ m.name = o
  <2>1. rest[o] \in Seq(Bytes) /\ MaxStreamFrameBytes \in Nat
    BY LimitsAssumption DEF StreamInv, StreamTypes
  <2>2. Take(rest[o], MaxStreamFrameBytes) \in Seq(Bytes)
    BY <2>1, TakeProperties
  <2>3. Transmitted(Take(rest[o], MaxStreamFrameBytes)) \in Seq(Bytes \cup {"r"})
    BY <2>2, TransmittedProperties
  <2> QED
    BY <2>3 DEF Output, OutputFrames, Frames
<1> HIDE DEF m
<1>3. /\ wire \in Seq(Frames) /\ Len(wire) \in Nat /\ wire' \in Seq(Frames) /\ Len(wire') = Len(wire) + 1
      /\ wire'[Len(wire) + 1] = m /\ \A k \in 1..Len(wire) : wire'[k] = wire[k]
  BY <1>1, <1>2, AppendProperties, LenProperties DEF StreamInv, StreamTypes
<1>4. rest' \in [Outputs -> Seq(Bytes)] /\ (rest'["stdout"] # << >> => o = "stdout")
  <2>1. Drop(rest[o], MaxStreamFrameBytes) \in Seq(Bytes)
    BY DropProperties, LimitsAssumption DEF StreamInv, StreamTypes
  <2> QED
    BY <1>1, <2>1 DEF StreamInv, StreamTypes, Outputs
<1>5. \A k \in 1..Len(wire') : k \in 1..Len(wire) \/ k = Len(wire) + 1
  BY <1>3
<1>6. \A k \in 1..Len(wire) : wire[k].kind = "output"
  BY <1>1 DEF StreamInv, PhaseInv
<1>7. o = "stdout" => (\A j \in 1..Len(got) : ~Late(got[j])) /\ (\A k \in 1..Len(wire) : ~Late(wire[k]))
  BY <1>1 DEF StreamInv, OrderInv
<1>8. (Late(m) => o = "stderr") /\ (Early(m) => o = "stdout")
  BY <1>2 DEF Late, Early
<1>9. StreamTypes'
  BY <1>1, <1>3, <1>4 DEF StreamInv, StreamTypes
<1>10. PhaseInv'
  BY <1>1, <1>2, <1>3, <1>5, <1>6 DEF PhaseInv
<1>11. OrderInv'
  <2>1. \A j, k \in 1..Len(got') : j < k /\ Late(got'[j]) => Late(got'[k])
    BY <1>1 DEF StreamInv, OrderInv
  <2>2. ASSUME NEW j \in 1..Len(wire'), NEW k \in 1..Len(wire'), j < k, Late(wire'[j]), Early(wire'[k])
        PROVE  FALSE
    <3>1. j \in 1..Len(wire) /\ wire'[j] = wire[j]
      BY <1>3, <2>2
    <3>2. CASE k \in 1..Len(wire)
      BY <1>3, <2>2, <3>1, <3>2 DEF StreamInv, OrderInv
    <3>3. CASE k = Len(wire) + 1
      BY <1>3, <1>7, <1>8, <2>2, <3>1, <3>3
    <3> QED
      BY <1>5, <3>2, <3>3
  <2>3. ASSUME NEW j \in 1..Len(got'), NEW k \in 1..Len(wire'), Late(got'[j]), Early(wire'[k])
        PROVE  FALSE
    <3>1. CASE k \in 1..Len(wire)
      BY <1>1, <1>3, <2>3, <3>1 DEF StreamInv, OrderInv
    <3>2. CASE k = Len(wire) + 1
      BY <1>1, <1>3, <1>7, <1>8, <2>3, <3>2
    <3> QED
      BY <1>5, <3>1, <3>2
  <2>4. ASSUME rest'["stdout"] # << >>
        PROVE  (\A j \in 1..Len(got') : ~Late(got'[j])) /\ (\A k \in 1..Len(wire') : ~Late(wire'[k]))
    BY <1>1, <1>3, <1>4, <1>5, <1>7, <1>8, <2>4
  <2> QED
    BY <2>1, <2>2, <2>3, <2>4 DEF OrderInv
<1> QED
  BY <1>9, <1>10, <1>11 DEF StreamInv

(* The guest's other steps: a refusal, the end of the command, the result. *)
LEMMA RefuseKeeps ==
  ASSUME StreamInv, Refuse
  PROVE  StreamInv'
<1> DEFINE m == [kind |-> "refused"]
<1>1. /\ guest = "run" /\ wire' = Append(wire, m) /\ guest' = "closed"
      /\ UNCHANGED <<stream, rest, host, client, got>>
  BY DEF Refuse
<1>2. wire = << >> /\ got = << >> /\ rest = Nothing /\ host # "result"
  BY <1>1 DEF StreamInv, PhaseInv
<1>3. m \in Frames /\ m.kind = "refused" /\ << >> \in Seq(Frames) /\ Len(<< >>) = 0
  BY FrameKinds, EmptySeq
<1> HIDE DEF m
<1>4. wire' \in Seq(Frames) /\ Len(wire') = 1 /\ wire'[1] = m
  BY <1>1, <1>2, <1>3, AppendProperties
<1>5. StreamTypes'
  BY <1>1, <1>4 DEF StreamInv, StreamTypes
<1>6. PhaseInv'
  BY <1>1, <1>2, <1>4 DEF PhaseInv
<1>7. OrderInv'
  <2>1. got' = << >> /\ rest'["stdout"] = << >>
    BY <1>1, <1>2 DEF Nothing, Outputs
  <2> QED
    BY <1>3, <1>4, <2>1 DEF OrderInv
<1> QED
  BY <1>5, <1>6, <1>7 DEF StreamInv

(* The end of the command.                                                 *)
LEMMA FinishKeeps ==
  ASSUME StreamInv, CaptureInv, Finish
  PROVE  StreamInv'
<1>1. /\ guest = "run" /\ guest' = "send" /\ rest' = [o \in Outputs |-> Captured(o)]
      /\ UNCHANGED <<stream, wire, host, client, got>>
  BY DEF Finish
<1>2. wire = << >> /\ got = << >> /\ host # "result"
  BY <1>1 DEF StreamInv, PhaseInv
<1>3. ASSUME NEW o \in Outputs PROVE Captured(o) \in Seq(Bytes)
  BY TextAssumption, ConcatProperties DEF Captured, CaptureInv
<1>4. StreamTypes'
  BY <1>1, <1>3 DEF StreamInv, StreamTypes
<1>5. Len(<< >>) = 0
  BY EmptySeq
<1>6. PhaseInv'
  BY <1>1, <1>2, <1>5 DEF PhaseInv
<1>7. OrderInv'
  BY <1>1, <1>2, <1>5 DEF OrderInv
<1> QED
  BY <1>4, <1>6, <1>7 DEF StreamInv

(* What SendResult puts on the wire, for ExecStream and for Exec.          *)
LEMMA ResultSent ==
  ASSUME StreamInv, SendResult
  PROVE  /\ wire' \in Seq(Frames) /\ Len(wire') \in Nat \ {0} /\ wire'[Len(wire')] = [kind |-> "result"]
         /\ stream => Len(wire') = Len(wire) + 1 /\ \A k \in 1..Len(wire) : wire'[k] = wire[k]
         /\ ~stream => /\ Len(wire') = 3
                       /\ wire'[1] = Output("stdout", Transmitted(rest["stdout"]))
                       /\ wire'[2] = Output("stderr", Transmitted(rest["stderr"]))
<1> DEFINE m == [kind |-> "result"]
           r == << m >>
           a == Output("stdout", Transmitted(rest["stdout"]))
           b == Output("stderr", Transmitted(rest["stderr"]))
           w == IF stream THEN wire ELSE << a, b >>
<1>1. wire' = w \o r
  BY DEF SendResult
<1>2. a \in Frames /\ b \in Frames /\ m \in Frames
  <2>1. /\ Transmitted(rest["stdout"]) \in Seq(Bytes \cup {"r"})
        /\ Transmitted(rest["stderr"]) \in Seq(Bytes \cup {"r"})
    BY TransmittedProperties DEF StreamInv, StreamTypes, Outputs
  <2> QED
    BY <2>1, FrameKinds DEF Output, OutputFrames, Outputs
<1>3. wire \in Seq(Frames) /\ Len(wire) \in Nat
  BY LenProperties DEF StreamInv, StreamTypes
<1> HIDE DEF a, b, m
<1>4. r \in Seq(Frames) /\ Len(r) = 1 /\ r[1] = m
  BY <1>2
<1>5. << a, b >> \in Seq(Frames) /\ Len(<< a, b >>) = 2 /\ << a, b >>[1] = a /\ << a, b >>[2] = b
  BY <1>2
<1>6. w \in Seq(Frames) /\ Len(w) \in Nat
  BY <1>3, <1>5
<1> HIDE DEF r
<1>7. /\ wire' \in Seq(Frames) /\ Len(wire') = Len(w) + 1 /\ wire'[Len(w) + 1] = m
      /\ \A k \in 1..Len(w) : wire'[k] = w[k]
  <2> HIDE DEF w
  <2>1. /\ w \o r \in Seq(Frames) /\ Len(w \o r) = Len(w) + 1
        /\ \A i \in 1..Len(w) + 1 : (w \o r)[i] = IF i <= Len(w) THEN w[i] ELSE r[i - Len(w)]
    BY <1>4, <1>6, ConcatProperties
  <2>2. Len(w) + 1 \in 1..Len(w) + 1 /\ ~(Len(w) + 1 <= Len(w)) /\ Len(w) + 1 - Len(w) = 1
    BY <1>6
  <2> QED
    BY <1>1, <1>4, <1>6, <2>1, <2>2
<1>8. CASE stream
  BY <1>3, <1>7, <1>8 DEF m
<1>9. CASE ~stream
  BY <1>5, <1>7, <1>9 DEF a, b, m
<1> QED
  BY <1>8, <1>9

(* Sending the result keeps the order of the stream.                       *)
LEMMA SendResultKeeps ==
  ASSUME StreamInv, SendResult
  PROVE  StreamInv'
<1>1. /\ guest = "send" /\ host = "read" /\ (stream => rest = Nothing) /\ guest' = "closed"
      /\ UNCHANGED <<stream, rest, host, client, got>>
  BY DEF SendResult, Nothing
<1>2. StreamTypes'
  BY <1>1, ResultSent DEF StreamInv, StreamTypes
<1>3. \A k \in 1..Len(wire) : wire[k].kind = "output"
  BY <1>1 DEF StreamInv, PhaseInv
<1>4. CASE stream
  <2>1. /\ Len(wire) \in Nat /\ Len(wire') = Len(wire) + 1 /\ wire'[Len(wire')] = [kind |-> "result"]
        /\ \A k \in 1..Len(wire) : wire'[k] = wire[k]
    BY <1>4, ResultSent, LenProperties DEF StreamInv, StreamTypes
  <2>2. \A k \in 1..Len(wire') : k \in 1..Len(wire) \/ k = Len(wire')
    BY <2>1
  <2>3. PhaseInv'
    BY <1>1, <1>3, <1>4, <2>1, <2>2 DEF PhaseInv
  <2>4. ~Early(wire'[Len(wire')]) /\ ~Late(wire'[Len(wire')]) /\ rest'["stdout"] = << >>
    BY <1>1, <1>4, <2>1 DEF Early, Late, Nothing, Outputs
  <2>5. OrderInv'
    BY <1>1, <2>1, <2>2, <2>4 DEF StreamInv, OrderInv
  <2> QED
    BY <1>2, <2>3, <2>5 DEF StreamInv
<1>5. CASE ~stream
  <2>1. got = << >> /\ Len(<< >>) = 0
    BY <1>1, <1>5, EmptySeq DEF StreamInv, PhaseInv
  <2>2. /\ Len(wire') = 3 /\ wire'[3] = [kind |-> "result"]
        /\ wire'[1] = Output("stdout", Transmitted(rest["stdout"]))
        /\ wire'[2] = Output("stderr", Transmitted(rest["stderr"]))
    BY <1>5, ResultSent, Zenon
  <2>3. /\ wire'[1].kind = "output" /\ wire'[2].kind = "output" /\ wire'[3].kind = "result"
        /\ wire'[1].name = "stdout" /\ wire'[2].name = "stderr"
    BY <2>2 DEF Output
  <2>4. \A k \in 1..Len(wire') : k = 1 \/ k = 2 \/ k = 3
    BY <2>2
  <2>5. PhaseInv'
    BY <1>1, <1>5, <2>1, <2>2, <2>3, <2>4 DEF PhaseInv
  <2>6. OrderInv'
    BY <1>1, <1>5, <2>1, <2>2, <2>3, <2>4 DEF OrderInv, Early, Late
  <2> QED
    BY <1>2, <2>5, <2>6 DEF StreamInv
<1> QED
  BY <1>4, <1>5

(* The host reads one frame: the result, output for the client, or one     *)
(* that makes it give up.                                                  *)
ReadsResult == Head(wire).kind = "result" /\ host' = "result" /\ UNCHANGED got

ReadsOutput ==
  /\ Head(wire).kind = "output" /\ got' = Append(got, Head(wire)) /\ UNCHANGED host
  /\ stream => Size(Head(wire).data) <= MaxStreamFrameBytes

FailsToRead == host' = "failed" /\ UNCHANGED got

(* A read of either kind does one of these three things.                   *)
LEMMA Reads ==
  ASSUME ExecStreamReads \/ ExecReads
  PROVE  /\ host = "read" /\ wire # << >> /\ wire' = Tail(wire)
         /\ UNCHANGED <<stream, captureVars, guest, rest, client>>
         /\ ReadsResult \/ ReadsOutput \/ FailsToRead
<1>1. /\ host = "read" /\ wire # << >> /\ wire' = Tail(wire)
      /\ UNCHANGED <<stream, captureVars, guest, rest, client>>
  BY DEF ExecStreamReads, ExecReads, Receives, captureVars
<1>2. ReadsResult \/ ReadsOutput \/ FailsToRead
  BY Zenon DEF ExecStreamReads, ExecReads, Accepts, receive, ReadsResult, ReadsOutput, FailsToRead
<1> QED
  BY <1>1, <1>2

(* What is on the wire afterwards.                                         *)
LEMMA WireRead ==
  ASSUME StreamInv, ExecStreamReads \/ ExecReads
  PROVE  /\ Len(wire) \in Nat \ {0} /\ Head(wire) = wire[1] /\ wire[1] \in Frames
         /\ wire' \in Seq(Frames) /\ Len(wire') = Len(wire) - 1
         /\ \A k \in 1..Len(wire') : wire'[k] = wire[k + 1] /\ k + 1 \in 1..Len(wire)
         /\ guest # "run" /\ (~stream => guest = "closed")
<1>1. wire \in Seq(Frames) /\ wire # << >> /\ wire' = Tail(wire) /\ UNCHANGED <<stream, guest>>
  BY Reads DEF StreamInv, StreamTypes
<1>2. /\ Tail(wire) \in Seq(Frames) /\ Len(Tail(wire)) = Len(wire) - 1
      /\ \A k \in 1..Len(Tail(wire)) : Tail(wire)[k] = wire[k + 1]
  BY <1>1, HeadTailProperties
<1>3. Len(wire) \in Nat \ {0}
  BY <1>1, EmptySeq
<1>4. Head(wire) = wire[1] /\ wire[1] \in Frames
  BY <1>1, <1>3, ElementOfSeq
<1>5. guest # "run" /\ (~stream => guest = "closed")
  BY <1>1 DEF StreamInv, StreamTypes, PhaseInv
<1> QED
  BY <1>1, <1>2, <1>3, <1>4, <1>5

(* Reading a frame keeps the order of the stream.                          *)
LEMMA ReadKeeps ==
  ASSUME StreamInv, ExecStreamReads \/ ExecReads
  PROVE  StreamInv'
<1>1. host = "read" /\ UNCHANGED <<stream, guest, rest, client>>
  BY Reads
<1>2. /\ Len(wire) \in Nat \ {0} /\ Head(wire) = wire[1] /\ wire[1] \in Frames
      /\ wire' \in Seq(Frames) /\ Len(wire') = Len(wire) - 1
      /\ \A k \in 1..Len(wire') : wire'[k] = wire[k + 1] /\ k + 1 \in 1..Len(wire)
      /\ guest # "run" /\ (~stream => guest = "closed") /\ 1 \in 1..Len(wire)
  BY WireRead
<1>3. \A k \in 1..Len(wire') :
        wire'[k].kind # "output" => k = Len(wire') /\ guest' = "closed" /\ (stream' => rest' = Nothing)
  <2> SUFFICES ASSUME NEW k \in 1..Len(wire'), wire'[k].kind # "output"
               PROVE  k = Len(wire') /\ guest' = "closed" /\ (stream' => rest' = Nothing)
    OBVIOUS
  <2>1. k + 1 \in 1..Len(wire) /\ wire[k + 1].kind # "output"
    BY <1>2
  <2>2. k + 1 = Len(wire) /\ guest = "closed" /\ (stream => rest = Nothing)
    BY <2>1, Zenon DEF StreamInv, PhaseInv
  <2> QED
    BY <1>1, <1>2, <2>2 DEF Nothing
<1>4. \A j, k \in 1..Len(wire') : j < k /\ Late(wire'[j]) => ~Early(wire'[k])
  <2> SUFFICES ASSUME NEW j \in 1..Len(wire'), NEW k \in 1..Len(wire'), j < k, Late(wire[j + 1])
               PROVE  ~Early(wire[k + 1])
    BY <1>2
  <2>1. j + 1 \in 1..Len(wire) /\ k + 1 \in 1..Len(wire) /\ j + 1 < k + 1
    BY <1>2
  <2> QED
    BY <2>1 DEF StreamInv, OrderInv
<1>5. CASE UNCHANGED got
  <2>1. StreamTypes'
    BY <1>1, <1>2, <1>5, Reads DEF StreamInv, StreamTypes, ReadsResult, ReadsOutput, FailsToRead
  <2>2. host' = "result" => wire' = << >> /\ guest' = "closed" /\ (stream' => rest' = Nothing)
    <3> SUFFICES ASSUME host' = "result"
                 PROVE  wire' = << >> /\ guest' = "closed" /\ (stream' => rest' = Nothing)
      OBVIOUS
    <3>1. wire[1].kind = "result"
      BY <1>1, <1>2, Reads DEF ReadsResult, ReadsOutput, FailsToRead
    <3>2. 1 = Len(wire) /\ guest = "closed" /\ (stream => rest = Nothing)
      BY <1>2, <3>1 DEF StreamInv, PhaseInv
    <3>3. wire' = << >>
      <4>1. wire' \in Seq(Frames) /\ Len(wire') = Len(wire) - 1
        BY <1>2, Zenon
      <4>2. Len(wire') = 0
        BY <3>2, <4>1
      <4> QED
        BY <4>1, <4>2, EmptySeq
    <3> QED
      BY <1>1, <3>2, <3>3
  <2>3. PhaseInv'
    BY <1>1, <1>2, <1>3, <2>2 DEF PhaseInv
  <2>4. \A j \in 1..Len(got'), k \in 1..Len(wire') : Late(got'[j]) => ~Early(wire'[k])
    BY <1>2, <1>5 DEF StreamInv, OrderInv
  <2>5. stream' /\ rest'["stdout"] # << >> =>
          (\A j \in 1..Len(got') : ~Late(got'[j])) /\ (\A k \in 1..Len(wire') : ~Late(wire'[k]))
    BY <1>1, <1>2, <1>5 DEF StreamInv, OrderInv
  <2>6. \A j, k \in 1..Len(got') : j < k /\ Late(got'[j]) => Late(got'[k])
    BY <1>5 DEF StreamInv, OrderInv
  <2>7. OrderInv'
    BY <1>4, <2>4, <2>5, <2>6, Zenon DEF OrderInv
  <2> QED
    BY <2>1, <2>3, <2>7 DEF StreamInv
<1>6. CASE ReadsOutput
  <2>1. wire[1].kind = "output" /\ wire[1] \in OutputFrames /\ got' = Append(got, wire[1]) /\ host' = "read"
    BY <1>1, <1>2, <1>6, FrameKinds DEF ReadsOutput
  <2>2. /\ got' \in Seq(OutputFrames) /\ Len(got) \in Nat /\ Len(got') = Len(got) + 1
        /\ got'[Len(got) + 1] = wire[1] /\ \A j \in 1..Len(got) : got'[j] = got[j]
    BY <2>1, AppendProperties, LenProperties DEF StreamInv, StreamTypes
  <2>3. \A j \in 1..Len(got') : j \in 1..Len(got) \/ j = Len(got) + 1
    BY <2>2
  <2>4. StreamTypes'
    BY <1>1, <1>2, <2>1, <2>2 DEF StreamInv, StreamTypes
  <2>5. PhaseInv'
    BY <1>1, <1>2, <1>3, <2>1 DEF PhaseInv
  <2>6. ASSUME NEW j \in 1..Len(got'), NEW k \in 1..Len(got'), j < k, Late(got'[j])
        PROVE  Late(got'[k])
    <3>1. j \in 1..Len(got) /\ got'[j] = got[j]
      BY <2>2, <2>6
    <3>2. CASE k \in 1..Len(got)
      BY <2>2, <2>6, <3>1, <3>2 DEF StreamInv, OrderInv
    <3>3. CASE k = Len(got) + 1
      <4>1. ~Early(wire[1])
        BY <1>2, <2>6, <3>1 DEF StreamInv, OrderInv
      <4>2. wire[1].name \in Outputs
        BY <2>1, FrameKinds
      <4> QED
        BY <2>1, <2>2, <3>3, <4>1, <4>2 DEF Early, Late, Outputs
    <3> QED
      BY <2>3, <3>2, <3>3
  <2>7. ASSUME NEW j \in 1..Len(got'), NEW k \in 1..Len(wire'), Late(got'[j])
        PROVE  ~Early(wire'[k])
    <3>1. wire'[k] = wire[k + 1] /\ k + 1 \in 1..Len(wire) /\ 1 < k + 1
      BY <1>2
    <3>2. CASE j \in 1..Len(got)
      BY <2>2, <2>7, <3>1, <3>2 DEF StreamInv, OrderInv
    <3>3. CASE j = Len(got) + 1
      <4>1. Late(wire[1])
        BY <2>2, <2>7, <3>3
      <4> QED
        BY <1>2, <3>1, <4>1 DEF StreamInv, OrderInv
    <3> QED
      BY <2>3, <3>2, <3>3
  <2>8. stream' /\ rest'["stdout"] # << >> =>
          (\A j \in 1..Len(got') : ~Late(got'[j])) /\ (\A k \in 1..Len(wire') : ~Late(wire'[k]))
    BY <1>1, <1>2, <2>2, <2>3, Zenon DEF StreamInv, OrderInv
  <2>9. OrderInv'
    BY <1>4, <2>6, <2>7, <2>8, Zenon DEF OrderInv
  <2> QED
    BY <2>4, <2>5, <2>9 DEF StreamInv
<1> QED
  BY <1>5, <1>6, Reads DEF ReadsResult, FailsToRead

(* Steps that leave the frames alone.                                      *)
LEMMA FramesUntouched ==
  ASSUME StreamInv, UNCHANGED <<stream, rest, wire, got>>, client' \in BOOLEAN,
         \/ UNCHANGED <<guest, host>>
         \/ guest = "send" /\ guest' = "closed" /\ UNCHANGED host
         \/ host' = "failed" /\ UNCHANGED guest
  PROVE  StreamInv'
<1>1. StreamTypes'
  BY DEF StreamInv, StreamTypes
<1>2. PhaseInv'
  BY DEF StreamInv, PhaseInv
<1>3. OrderInv'
  BY DEF StreamInv, OrderInv
<1> QED
  BY <1>1, <1>2, <1>3 DEF StreamInv

(* The frames keep their order, and the result comes last, whatever was    *)
(* written, however frames are cut and whoever gives up.                   *)
THEOREM StreamInvariant == Spec => []StreamInv
<1>1. Init => StreamInv
  <2> SUFFICES ASSUME Init PROVE StreamInv
    OBVIOUS
  <2>1. << >> \in Seq(Bytes) /\ << >> \in Seq(Frames) /\ << >> \in Seq(OutputFrames) /\ Len(<< >>) = 0
    BY EmptySeq
  <2>2. /\ stream \in BOOLEAN /\ client = TRUE /\ guest = "run" /\ host = "read"
        /\ rest = [o \in Outputs |-> << >>] /\ wire = << >> /\ got = << >>
    BY DEF Init
  <2>3. StreamTypes
    BY <2>1, <2>2 DEF StreamTypes
  <2>4. PhaseInv
    BY <2>1, <2>2 DEF PhaseInv, Nothing
  <2>5. OrderInv
    BY <2>1, <2>2 DEF OrderInv
  <2> QED
    BY <2>3, <2>4, <2>5 DEF StreamInv
<1>2. ASSUME StreamInv, CaptureInv, [Next]_vars PROVE StreamInv'
  <2>1. CASE UNCHANGED vars
    BY <1>2, <2>1, FramesUntouched DEF vars, StreamInv, StreamTypes
  <2>2. ASSUME NEW o \in Outputs, NEW p \in Chunks, Write(o, p) PROVE StreamInv'
    <3>1. UNCHANGED <<stream, rest, wire, got, guest, host, client>>
      BY <2>2 DEF Write
    <3> QED
      BY <1>2, <3>1, FramesUntouched DEF StreamInv, StreamTypes
  <2>3. CASE Refuse
    BY <1>2, <2>3, RefuseKeeps
  <2>4. CASE Finish
    BY <1>2, <2>4, FinishKeeps
  <2>5. ASSUME NEW o \in Outputs, SendFrame(o) PROVE StreamInv'
    BY <1>2, <2>5, SendFrameKeeps
  <2>6. CASE SendResult
    BY <1>2, <2>6, SendResultKeeps
  <2>7. CASE GiveUp \/ Lose \/ ClientLeaves
    BY <1>2, <2>7, FramesUntouched, Zenon DEF GiveUp, Lose, ClientLeaves, StreamInv, StreamTypes
  <2>8. CASE ExecStreamReads \/ ExecReads
    BY <1>2, <2>8, ReadKeeps
  <2> QED
    BY <1>2, <2>1, <2>2, <2>3, <2>4, <2>5, <2>6, <2>7, <2>8, Zenon DEF Next
<1> QED
  BY <1>1, <1>2, CaptureInvariant, PTL DEF Spec

(* Output reaches the client in protocol order: never stdout after stderr, *)
(* and no result while output is still under way or was never sent, for    *)
(* any sizes of writes, buffers and frames.                                *)
THEOREM ProtocolIsOrdered == Spec => []ProtocolOrder
<1>1. StreamInv => ProtocolOrder
  <2> SUFFICES ASSUME StreamInv PROVE ProtocolOrder
    OBVIOUS
  <2>1. \A k \in 1..Len(got) : got[k].kind = "output"
    BY ElementOfSeq, FrameKinds DEF StreamInv, StreamTypes
  <2>2. \A j, k \in 1..Len(got) : j < k /\ got[j].name = "stderr" => got[k].name = "stderr"
    BY <2>1 DEF StreamInv, OrderInv, Late
  <2>3. ASSUME host = "result"
        PROVE  (\A o \in Outputs : Pending(o) = {}) /\ (stream => \A o \in Outputs : rest[o] = << >>)
    <3>1. Len(wire) = 0 /\ (stream => rest = Nothing)
      BY <2>3, EmptySeq DEF StreamInv, PhaseInv
    <3> QED
      BY <3>1 DEF Pending, Nothing
  <2> QED
    BY <2>2, <2>3 DEF ProtocolOrder
<1> QED
  BY <1>1, StreamInvariant, PTL

-----------------------------------------------------------------------------
(* The text.  A cut of a text is harmless where no character is cut.       *)
Boundary(s, n) == n = 0 \/ s[n] # "l"

(* Where a whole text ends no character is cut.                            *)
LEMMA TextEndsAtBoundary ==
  ASSUME NEW s \in Seq(Bytes), WholeText(s)
  PROVE  Boundary(s, Len(s))
<1>1. Len(s) \in Nat
  BY LenProperties
<1>2. CASE Len(s) # 0
  <2>1. Whole(s, Len(s))
    BY <1>1, <1>2 DEF WholeText
  <2> QED
    BY <1>1, <2>1 DEF Whole, Boundary
<1> QED
  BY <1>2 DEF Boundary

(* A frame that is a whole text is transmitted unchanged.                  *)
LEMMA WholeIsKept ==
  ASSUME NEW s \in Seq(Bytes), WholeText(s)
  PROVE  Transmitted(s) = s
<1>1. s = [k \in 1..Len(s) |-> s[k]]
  BY LenProperties
<1>2. Transmitted(s) = [k \in 1..Len(s) |-> s[k]]
  BY DEF Transmitted, WholeText
<1> QED
  BY <1>1, <1>2

(* What follows a boundary in a whole text is whole.                       *)
LEMMA WholeRemains ==
  ASSUME NEW s \in Seq(Bytes), WholeText(s), NEW m \in Nat, m <= Len(s), Boundary(s, m)
  PROVE  WholeText(Slice(s, m, Len(s)))
<1> DEFINE t == Slice(s, m, Len(s))
<1>1. Len(s) \in Nat /\ Len(s) <= Len(s)
  BY LenProperties
<1>2. t \in Seq(Bytes) /\ Len(t) = Len(s) - m /\ \A i \in 1..Len(s) - m : t[i] = s[m + i]
  BY <1>1, SliceProperties, Zenon
<1> HIDE DEF t
<1>3. ASSUME NEW i \in 1..Len(t) PROVE Whole(t, i)
  <2>1. i \in 1..Len(s) - m /\ m + i \in 1..Len(s) /\ t[i] = s[m + i]
    BY <1>1, <1>2
  <2>2. Whole(s, m + i)
    BY <2>1 DEF WholeText
  <2>3. CASE s[m + i] = "a"
    BY <2>1, <2>3 DEF Whole
  <2>4. CASE s[m + i] = "l" /\ m + i < Len(s) /\ s[m + i + 1] = "c"
    <3>1. i + 1 \in 1..Len(s) - m /\ m + (i + 1) = m + i + 1 /\ i < Len(t)
      BY <1>1, <1>2, <2>4
    <3>2. t[i + 1] = "c"
      BY <1>2, <2>4, <3>1
    <3> QED
      BY <2>1, <2>4, <3>1, <3>2 DEF Whole
  <2>5. CASE s[m + i] = "c" /\ m + i > 1 /\ s[m + i - 1] = "l"
    <3>1. i # 1
      <4> SUFFICES ASSUME i = 1 PROVE FALSE
        OBVIOUS
      <4>1. m # 0 /\ s[m] = "l"
        BY <2>5
      <4> QED
        BY <4>1 DEF Boundary
    <3>2. i - 1 \in 1..Len(s) - m /\ m + (i - 1) = m + i - 1 /\ i > 1
      BY <1>1, <2>1, <3>1
    <3>3. t[i - 1] = "l"
      BY <1>2, <2>5, <3>2
    <3> QED
      BY <2>1, <2>5, <3>2, <3>3 DEF Whole
  <2> QED
    BY <2>2, <2>3, <2>4, <2>5 DEF Whole
<1> QED
  BY <1>3 DEF WholeText, t

(* A text whose encoding is no longer than itself was whole: no byte was   *)
(* replaced by the longer replacement character.                           *)
LEMMA NoGrowthIsWhole ==
  ASSUME NEW t \in Seq(Bytes), Size(Transmitted(t)) <= Len(t)
  PROVE  WholeText(t)
<1> DEFINE u == Transmitted(t)
           R == {k \in 1..Len(u) : u[k] = "r"}
<1>1. Len(t) \in Nat /\ Len(u) = Len(t) /\ \A k \in 1..Len(t) : u[k] = IF Whole(t, k) THEN t[k] ELSE "r"
  BY TransmittedProperties, LenProperties
<1>2. IsFiniteSet(1..Len(t))
  BY <1>1, FS_Interval
<1>3. IsFiniteSet(R) /\ Cardinality(R) \in Nat
  <2>1. R \subseteq 1..Len(t)
    BY <1>1
  <2>2. IsFiniteSet(R)
    BY <1>2, <2>1, FS_Subset
  <2> QED
    BY <2>2, FS_CardinalityType
<1>4. Cardinality(R) = 0
  <2>1. Len(u) + 2 * Cardinality(R) <= Len(t)
    BY DEF Size
  <2> HIDE DEF R, u
  <2> QED
    BY <1>1, <1>3, <2>1
<1>5. R = {}
  BY <1>3, <1>4, FS_EmptySet, Zenon
<1> HIDE DEF u
<1> QED
  BY <1>1, <1>5 DEF WholeText

(* A frame from a boundary, the last of its text or one that is not longer *)
(* than its bytes, is transmitted unchanged and ends at a boundary.        *)
LEMMA FrameIsKept ==
  ASSUME NEW s \in Seq(Bytes), WholeText(s), NEW m \in Nat, NEW n \in Nat,
         m <= n, n <= Len(s), Boundary(s, m),
         n = Len(s) \/ Size(Transmitted(Slice(s, m, n))) <= n - m
  PROVE  Transmitted(Slice(s, m, n)) = Slice(s, m, n) /\ Boundary(s, n)
<1> DEFINE t == Slice(s, m, n)
<1>1. t \in Seq(Bytes) /\ Len(t) = n - m /\ \A i \in 1..n - m : t[i] = s[m + i]
  BY SliceProperties, Zenon
<1>2. CASE n = Len(s)
  <2>1. WholeText(t) /\ Boundary(s, n)
    BY <1>2, WholeRemains, TextEndsAtBoundary
  <2> HIDE DEF t
  <2>2. Transmitted(t) = t
    BY <1>1, <2>1, WholeIsKept
  <2> QED
    BY <2>1, <2>2 DEF t
<1>3. CASE Size(Transmitted(t)) <= n - m
  <2> HIDE DEF t
  <2>1. WholeText(t)
    BY <1>1, <1>3, NoGrowthIsWhole
  <2>2. Transmitted(t) = t /\ Boundary(t, n - m)
    BY <1>1, <2>1, WholeIsKept, TextEndsAtBoundary
  <2>3. CASE n = m
    BY <2>2, <2>3 DEF t
  <2>4. CASE n # m
    <3>1. n - m \in 1..n - m /\ m + (n - m) = n /\ n - m # 0
      BY <2>4
    <3>2. t[n - m] = s[n] /\ t[n - m] # "l"
      BY <1>1, <2>2, <3>1 DEF Boundary
    <3> QED
      BY <2>2, <3>2 DEF Boundary, t
  <2> QED
    BY <2>3, <2>4
<1> QED
  BY <1>2, <1>3

(* Slices put together, and cut again by Take and Drop.                    *)
LEMMA SlicesJoin ==
  ASSUME NEW s \in Seq(Bytes), NEW m \in Nat, NEW n \in Nat, m <= n, n <= Len(s)
  PROVE  Slice(s, 0, m) \o Slice(s, m, n) = Slice(s, 0, n)
<1>1. 1 \in 1..Len(s) + 1 /\ m \in 1 - 1..Len(s) /\ n \in m..Len(s) /\ 0 + 1 = 1
  BY LenProperties
<1>2. SubSeq(s, 1, m) \o SubSeq(s, m + 1, n) = SubSeq(s, 1, n)
  BY <1>1, ConcatAdjacentSubSeq
<1> QED
  BY <1>1, <1>2 DEF Slice

(* Where the frames on the wire cut the text of an output: the part before *)
(* the first cut was received, the part behind the last one is unsent.     *)
Unsent(o) == IF stream \/ guest = "send" THEN rest[o] ELSE << >>

Frame(o, m) == m.kind = "output" /\ m.name = o

CutsOf(s, o, cut) ==
  /\ cut \in [1..Len(wire) + 1 -> Nat] /\ \A k \in 1..Len(wire) + 1 : cut[k] <= Len(s)
  /\ Unsent(o) = Slice(s, cut[Len(wire) + 1], Len(s))
  /\ \A k \in 1..Len(wire) :
       /\ ~Frame(o, wire[k]) => cut[k + 1] = cut[k]
       /\ Frame(o, wire[k]) =>
            /\ cut[k] <= cut[k + 1] /\ wire[k].data = Transmitted(Slice(s, cut[k], cut[k + 1]))
            /\ cut[k + 1] = Len(s) \/ (stream /\ cut[k + 1] = cut[k] + MaxStreamFrameBytes)
  /\ WholeText(s) => Received(o) = Slice(s, 0, cut[1]) /\ Boundary(s, cut[1])

(* While the host reads, received, pending and unsent parts make up the    *)
(* captured text; Exec's message has it as a whole.                        *)
TextInv ==
  \A o \in Outputs :
    /\ ~stream /\ guest # "run" => rest[o] = Captured(o)
    /\ host = "read" /\ guest # "run" => \E cut : CutsOf(Captured(o), o, cut)
    /\ host = "result" /\ WholeText(Captured(o)) => Received(o) = Captured(o)

(* What is captured is a finite sequence of bytes.                         *)
LEMMA CapturedType ==
  ASSUME CaptureInv, NEW o \in Outputs
  PROVE  Captured(o) \in Seq(Bytes) /\ Len(Captured(o)) \in Nat
<1>1. Captured(o) \in Seq(Bytes)
  BY TextAssumption, ConcatProperties DEF Captured, CaptureInv
<1> QED
  BY <1>1, LenProperties

(* A slice of nothing, and the slice that is everything.                   *)
LEMMA SliceEnds ==
  ASSUME NEW s \in Seq(Bytes)
  PROVE  Slice(s, 0, 0) = << >> /\ Slice(s, 0, Len(s)) = s /\ Slice(s, Len(s), Len(s)) = << >>
<1>1. Len(s) \in Nat /\ Len(s) < Len(s) + 1 /\ 0 < 0 + 1 /\ 0 + 1 = 1
  BY LenProperties
<1>2. SubSeq(s, 0 + 1, 0) = << >>
  BY <1>1, SubSeqEmpty
<1>3. SubSeq(s, Len(s) + 1, Len(s)) = << >>
  BY <1>1, SubSeqEmpty
<1>4. SubSeq(s, 1, Len(s)) = s
  BY SubSeqFull
<1> QED
  BY <1>1, <1>2, <1>3, <1>4 DEF Slice

(* A step before the command is finished, or one that ends the reading.    *)
LEMMA TextUntouched ==
  ASSUME TextInv, UNCHANGED <<stream, buf, truncated, rest, wire, got>>,
         \/ UNCHANGED <<guest, host>>
         \/ guest = "send" /\ guest' = "closed" /\ host # "read" /\ UNCHANGED host
         \/ host' = "failed" /\ UNCHANGED guest
  PROVE  TextInv'
<1> SUFFICES ASSUME NEW o \in Outputs
             PROVE  /\ ~stream' /\ guest' # "run" => rest'[o] = Captured(o)'
                    /\ host' = "read" /\ guest' # "run" => \E cut : CutsOf(Captured(o), o, cut)'
                    /\ host' = "result" /\ WholeText(Captured(o)') => Received(o)' = Captured(o)'
  BY DEF TextInv
<1>1. Captured(o)' = Captured(o) /\ Received(o)' = Received(o)
  BY DEF Captured, Received
<1>2. ~stream' /\ guest' # "run" => rest'[o] = Captured(o)'
  BY <1>1 DEF TextInv
<1>3. host' = "result" /\ WholeText(Captured(o)') => Received(o)' = Captured(o)'
  BY <1>1 DEF TextInv
<1>4. ASSUME host' = "read", guest' # "run" PROVE \E cut : CutsOf(Captured(o), o, cut)'
  <2>1. host = "read" /\ guest # "run" /\ UNCHANGED guest
    BY <1>4
  <2>2. PICK cut : CutsOf(Captured(o), o, cut)
    BY <2>1 DEF TextInv
  <2>3. Unsent(o)' = Unsent(o)
    BY <2>1 DEF Unsent
  <2>4. CutsOf(Captured(o), o, cut)'
    BY <1>1, <2>2, <2>3 DEF CutsOf
  <2> QED
    BY <2>4
<1> QED
  BY <1>2, <1>3, <1>4

(* While the command runs nothing is on its way.                           *)
LEMMA WriteText ==
  ASSUME StreamInv, NEW o \in Outputs, NEW p \in Chunks, Write(o, p)
  PROVE  TextInv'
<1>1. guest' = "run" /\ host' # "result"
  BY DEF Write, StreamInv, PhaseInv
<1> QED
  BY <1>1, Zenon DEF TextInv

(* A refused request has no output.                                        *)
LEMMA RefuseText ==
  ASSUME StreamInv, CaptureInv, Refuse
  PROVE  TextInv'
<1>1. /\ guest = "run" /\ written = [o \in Outputs |-> << >>] /\ wire' = Append(wire, [kind |-> "refused"])
      /\ guest' = "closed" /\ UNCHANGED <<stream, buf, truncated, rest, host, got>>
  BY DEF Refuse, captureVars
<1>2. wire = << >> /\ got = << >> /\ rest = Nothing /\ host # "result"
  BY <1>1 DEF StreamInv, PhaseInv
<1>3. << >> \in Seq(Frames) /\ << >> \in Seq(Bytes) /\ Len(<< >>) = 0 /\ [kind |-> "refused"] \in Frames
  BY FrameKinds, EmptySeq
<1>4. Len(wire') = 1 /\ wire'[1] = [kind |-> "refused"]
  BY <1>1, <1>2, <1>3, AppendProperties
<1> SUFFICES ASSUME NEW o \in Outputs
             PROVE  rest'[o] = Captured(o)' /\ \E cut : CutsOf(Captured(o), o, cut)'
  BY <1>1, <1>2, Zenon DEF TextInv
<1>5. Captured(o)' = << >>
  <2>1. MaxOutputBytes \in Nat /\ Len(<< >>) <= MaxOutputBytes /\ ~(0 > MaxOutputBytes)
    BY <1>3, LimitsAssumption
  <2>2. Take(<< >>, MaxOutputBytes) = << >>
    BY <1>3, <2>1, TakeAll, Zenon
  <2>3. buf[o] = << >> /\ ~truncated[o]
    BY <1>1, <1>3, <2>1, <2>2 DEF CaptureInv, CaptureExact
  <2> QED
    BY <1>1, <2>3 DEF Captured
<1>6. rest'[o] = << >> /\ Unsent(o)' = << >>
  BY <1>1, <1>2 DEF Nothing, Unsent
<1>7. Slice(<< >>, 0, 0) = << >>
  BY <1>3, SliceEnds, Zenon
<1>8. Received(o)' = << >>
  BY <1>1, <1>2, JoinedEmpty DEF Received
<1> DEFINE cut == [k \in 1..2 |-> 0]
<1>9. CutsOf(Captured(o), o, cut)'
  BY <1>3, <1>4, <1>5, <1>6, <1>7, <1>8 DEF CutsOf, Frame, Boundary
<1> QED
  BY <1>5, <1>6, <1>9

(* When the command has ended everything is still to be sent.              *)
LEMMA FinishText ==
  ASSUME StreamInv, CaptureInv, Finish
  PROVE  TextInv'
<1>1. /\ guest = "run" /\ guest' = "send" /\ rest' = [o \in Outputs |-> Captured(o)]
      /\ UNCHANGED <<stream, buf, truncated, wire, host, got>>
  BY DEF Finish, captureVars
<1>2. wire = << >> /\ got = << >> /\ host # "result" /\ Len(<< >>) = 0
  BY <1>1, EmptySeq DEF StreamInv, PhaseInv
<1> SUFFICES ASSUME NEW o \in Outputs
             PROVE  rest'[o] = Captured(o)' /\ \E cut : CutsOf(Captured(o), o, cut)'
  BY <1>1, <1>2, Zenon DEF TextInv
<1> DEFINE s == Captured(o)
           cut == [k \in 1..1 |-> 0]
<1>3. s' = s /\ rest'[o] = s /\ Unsent(o)' = s
  BY <1>1 DEF Captured, Unsent
<1>4. s \in Seq(Bytes) /\ Len(s) \in Nat
  BY CapturedType
<1>5. Slice(s, 0, 0) = << >> /\ Slice(s, 0, Len(s)) = s
  BY <1>4, SliceEnds
<1>6. Received(o)' = << >>
  BY <1>1, <1>2, JoinedEmpty DEF Received
<1> HIDE DEF s
<1>7. CutsOf(s, o, cut)'
  BY <1>1, <1>2, <1>3, <1>4, <1>5, <1>6 DEF CutsOf, Boundary
<1> QED
  BY <1>3, <1>7 DEF s

(* Sending a frame moves the last cut.                                     *)
LEMMA FrameCuts ==
  ASSUME NEW s \in Seq(Bytes), NEW c \in Nat, c <= Len(s), NEW n \in Nat
  PROVE  LET e == c + AtMost(n, Len(s) - c) IN
           /\ e \in Nat /\ c <= e /\ e <= Len(s) /\ (e = Len(s) \/ e = c + n)
           /\ Take(Slice(s, c, Len(s)), n) = Slice(s, c, e)
           /\ Drop(Slice(s, c, Len(s)), n) = Slice(s, e, Len(s))
<1> DEFINE e == c + AtMost(n, Len(s) - c)
           r == Slice(s, c, Len(s))
           k == AtMost(n, Len(s) - c)
<1>1. Len(s) \in Nat /\ Len(s) <= Len(s)
  BY LenProperties
<1>2. /\ e \in Nat /\ c <= e /\ e <= Len(s) /\ (e = Len(s) \/ e = c + n)
      /\ k \in Nat /\ k <= n /\ e - c = k /\ (k = n \/ e = Len(s))
  BY <1>1 DEF AtMost
<1>3. r \in Seq(Bytes) /\ Len(r) = Len(s) - c /\ \A i \in 1..Len(s) - c : r[i] = s[c + i]
  BY <1>1, SliceProperties, Zenon
<1> HIDE DEF r
<1>4. Take(r, n) \in Seq(Bytes) /\ Len(Take(r, n)) = k /\ \A i \in 1..k : Take(r, n)[i] = r[i]
  BY <1>3, TakeProperties, Zenon
<1> HIDE DEF e, k
<1>5. /\ Slice(s, c, e) \in Seq(Bytes) /\ Len(Slice(s, c, e)) = e - c
      /\ \A i \in 1..e - c : Slice(s, c, e)[i] = s[c + i]
  <2>1. e \in Nat /\ c <= e /\ e <= Len(s)
    BY <1>2, Zenon
  <2> QED
    BY <2>1, SliceProperties, Zenon
<1>6. Take(r, n) = Slice(s, c, e)
  <2>1. \A i \in 1..k : Take(r, n)[i] = Slice(s, c, e)[i]
    <3> SUFFICES ASSUME NEW i \in 1..k PROVE Take(r, n)[i] = Slice(s, c, e)[i]
      OBVIOUS
    <3>1. i \in 1..Len(s) - c /\ i \in 1..e - c
      BY <1>1, <1>2
    <3> QED
      BY <1>3, <1>4, <1>5, <3>1, Zenon
  <2>2. Len(Take(r, n)) = Len(Slice(s, c, e)) /\ Len(Take(r, n)) = k
    BY <1>2, <1>4, <1>5
  <2> QED
    BY <1>4, <1>5, <2>1, <2>2, SeqEqual
<1>7. Drop(r, n) = Slice(s, e, Len(s))
  <2>1. CASE e = Len(s) /\ n >= Len(r)
    <3>1. Drop(r, n) = << >>
      <4>1. n + 1 \in Int /\ Len(r) \in Int /\ Len(r) < n + 1
        BY <1>1, <1>3, <2>1
      <4> QED
        BY <4>1, SubSeqEmpty DEF Drop
    <3> QED
      BY <2>1, <3>1, SliceEnds
  <2>2. CASE k = n /\ n <= Len(r)
    <3>1. Drop(r, n) = Slice(r, n, Len(r))
      BY DEF Drop, Slice
    <3>2. Len(r) \in Nat /\ Len(r) <= Len(r)
      BY <1>1, <1>3
    <3>3. /\ Drop(r, n) \in Seq(Bytes) /\ Len(Drop(r, n)) = Len(r) - n
          /\ \A i \in 1..Len(r) - n : Drop(r, n)[i] = r[n + i]
      <4>1. r \in Seq(Bytes) /\ n <= Len(r)
        BY <1>3, <2>2
      <4>2. /\ Slice(r, n, Len(r)) \in Seq(Bytes) /\ Len(Slice(r, n, Len(r))) = Len(r) - n
            /\ \A i \in 1..Len(r) - n : Slice(r, n, Len(r))[i] = r[n + i]
        BY <3>2, <4>1, SliceProperties, Zenon
      <4> QED
        BY <3>1, <4>2, Zenon
    <3>4. /\ Slice(s, e, Len(s)) \in Seq(Bytes) /\ Len(Slice(s, e, Len(s))) = Len(s) - e
          /\ \A i \in 1..Len(s) - e : Slice(s, e, Len(s))[i] = s[e + i]
      <4>1. e \in Nat /\ e <= Len(s)
        BY <1>2
      <4> QED
        BY <1>1, <4>1, SliceProperties, Zenon
    <3>5. Len(r) - n = Len(s) - e
      BY <1>1, <1>2, <1>3, <2>2
    <3>6. \A i \in 1..Len(r) - n : Drop(r, n)[i] = Slice(s, e, Len(s))[i]
      <4> SUFFICES ASSUME NEW i \in 1..Len(r) - n PROVE r[n + i] = s[e + i]
        BY <3>3, <3>4, <3>5
      <4>1. n + i \in 1..Len(s) - c /\ c + (n + i) = e + i
        BY <1>1, <1>2, <1>3, <2>2
      <4> QED
        BY <1>3, <4>1
    <3> QED
      BY <3>3, <3>4, <3>5, <3>6, SeqEqual, Zenon
  <2> QED
    BY <1>1, <1>2, <1>3, <2>1, <2>2
<1> QED
  BY <1>2, <1>6, <1>7 DEF e, r

(* A frame is the slice between the cut before it and the new last cut.    *)
LEMMA SendFrameText ==
  ASSUME StreamInv, CaptureInv, TextInv, NEW p \in Outputs, SendFrame(p)
  PROVE  TextInv'
<1> DEFINE m == Output(p, Transmitted(Take(rest[p], MaxStreamFrameBytes)))
<1>1. /\ guest = "send" /\ stream /\ host = "read" /\ wire' = Append(wire, m)
      /\ rest' = [rest EXCEPT ![p] = Drop(rest[p], MaxStreamFrameBytes)]
      /\ UNCHANGED <<stream, buf, truncated, guest, host, got>>
  BY DEF SendFrame, captureVars
<1>2. m.kind = "output" /\ m.name = p /\ m.data = Transmitted(Take(rest[p], MaxStreamFrameBytes))
  BY DEF Output
<1>3. m \in Frames
  <2>1. Take(rest[p], MaxStreamFrameBytes) \in Seq(Bytes)
    BY TakeProperties, LimitsAssumption DEF StreamInv, StreamTypes
  <2>2. Transmitted(Take(rest[p], MaxStreamFrameBytes)) \in Seq(Bytes \cup {"r"})
    BY <2>1, TransmittedProperties
  <2> QED
    BY <2>2 DEF Output, OutputFrames, Frames
<1> HIDE DEF m
<1>4. /\ Len(wire) \in Nat /\ Len(wire') = Len(wire) + 1
      /\ wire'[Len(wire) + 1] = m /\ \A k \in 1..Len(wire) : wire'[k] = wire[k]
  BY <1>1, <1>3, AppendProperties, LenProperties DEF StreamInv, StreamTypes
<1> SUFFICES ASSUME NEW o \in Outputs PROVE \E cut : CutsOf(Captured(o), o, cut)'
  BY <1>1, Zenon DEF TextInv
<1> DEFINE s == Captured(o)
<1>5. s' = s /\ s \in Seq(Bytes) /\ Len(s) \in Nat /\ Received(o)' = Received(o)
  BY <1>1, CapturedType DEF Captured, Received
<1> HIDE DEF s
<1>6. PICK cut : CutsOf(s, o, cut)
  BY <1>1, Zenon DEF TextInv, s
<1> DEFINE n == Len(wire) + 1
           c == cut[n]
           e == IF o = p THEN c + AtMost(MaxStreamFrameBytes, Len(s) - c) ELSE c
<1>7. /\ n \in Nat \ {0} /\ c \in Nat /\ c <= Len(s) /\ rest[o] = Slice(s, c, Len(s))
      /\ cut \in [1..n -> Nat] /\ \A k \in 1..n : cut[k] <= Len(s)
  <2>1. Len(wire) \in Nat /\ Unsent(o) = rest[o]
    BY <1>1, <1>4 DEF Unsent
  <2>2. /\ cut \in [1..n -> Nat] /\ \A k \in 1..n : cut[k] <= Len(s)
        /\ rest[o] = Slice(s, c, Len(s))
    BY <1>6, <2>1, Zenon DEF CutsOf
  <2>3. n \in Nat \ {0} /\ n \in 1..n
    BY <2>1
  <2> QED
    BY <2>2, <2>3, Zenon
<1>8. /\ e \in Nat /\ c <= e /\ e <= Len(s) /\ Unsent(o)' = Slice(s, e, Len(s))
      /\ o = p => /\ m.data = Transmitted(Slice(s, c, e))
                  /\ e = Len(s) \/ e = c + MaxStreamFrameBytes
      /\ o # p => e = c
  <2>1. CASE o = p
    <3>1. /\ e \in Nat /\ c <= e /\ e <= Len(s) /\ (e = Len(s) \/ e = c + MaxStreamFrameBytes)
          /\ Take(Slice(s, c, Len(s)), MaxStreamFrameBytes) = Slice(s, c, e)
          /\ Drop(Slice(s, c, Len(s)), MaxStreamFrameBytes) = Slice(s, e, Len(s))
      <4> HIDE DEF c
      <4> QED
        BY <1>5, <1>7, <2>1, FrameCuts, LimitsAssumption, Zenon
    <3> HIDE DEF e, c
    <3>2. Unsent(o)' = Drop(rest[o], MaxStreamFrameBytes)
      BY <1>1, <2>1 DEF Unsent, StreamInv, StreamTypes
    <3> QED
      BY <1>2, <1>7, <2>1, <3>1, <3>2
  <2>2. CASE o # p
    <3>1. Unsent(o)' = rest[o]
      BY <1>1, <2>2 DEF Unsent, StreamInv, StreamTypes
    <3> QED
      BY <1>7, <2>2, <3>1
  <2> QED
    BY <2>1, <2>2, Zenon
<1> HIDE DEF n, e
<1>9. PICK new \in [1..n + 1 -> Nat] :
        new[n + 1] = e /\ new[1] = cut[1] /\ \A k \in 1..n : new[k] = cut[k]
  <2> DEFINE f == [k \in 1..n + 1 |-> IF k = n + 1 THEN e ELSE cut[k]]
  <2>1. f \in [1..n + 1 -> Nat] /\ f[n + 1] = e /\ f[1] = cut[1] /\ \A k \in 1..n : f[k] = cut[k]
    BY <1>7, <1>8
  <2> HIDE DEF f
  <2> QED
    BY <2>1, Zenon
<1>10. \A k \in 1..n + 1 : new[k] <= Len(s)
  BY <1>7, <1>8, <1>9
<1>11. ASSUME NEW k \in 1..n
       PROVE  /\ ~Frame(o, wire'[k]) => new[k + 1] = new[k]
              /\ Frame(o, wire'[k]) =>
                   /\ new[k] <= new[k + 1] /\ wire'[k].data = Transmitted(Slice(s, new[k], new[k + 1]))
                   /\ new[k + 1] = Len(s) \/ (stream /\ new[k + 1] = new[k] + MaxStreamFrameBytes)
  <2>1. CASE k = n
    <3>1. wire'[k] = m /\ new[k] = c /\ new[k + 1] = e /\ (Frame(o, m) <=> o = p)
      BY <1>2, <1>4, <1>7, <1>9, <2>1 DEF n, Frame
    <3> QED
      BY <1>1, <1>8, <3>1
  <2>2. CASE k # n
    <3>1. k \in 1..Len(wire) /\ k + 1 \in 1..n
      BY <1>4, <1>7, <2>2 DEF n
    <3>2. wire'[k] = wire[k] /\ new[k] = cut[k] /\ new[k + 1] = cut[k + 1]
      BY <1>4, <1>9, <3>1
    <3> QED
      BY <1>6, <3>1, <3>2, Zenon DEF CutsOf
  <2> QED
    BY <2>1, <2>2
<1>12. WholeText(s) => Received(o) = Slice(s, 0, new[1]) /\ Boundary(s, new[1])
  BY <1>6, <1>9 DEF CutsOf
<1>13. CutsOf(s, o, new)'
  <2>1. Len(wire') = n
    BY <1>4 DEF n
  <2>2. Unsent(o)' = Slice(s, new[n + 1], Len(s))
    BY <1>8, <1>9
  <2> HIDE DEF c
  <2> QED
    BY <1>1, <1>5, <1>9, <1>10, <1>11, <1>12, <2>1, <2>2, Zenon DEF CutsOf
<1> QED
  BY <1>13 DEF s

(* The result: in a stream the last cut is the end of the text already;    *)
(* otherwise each output is put on the wire as one frame before it.        *)
LEMMA SendResultText ==
  ASSUME StreamInv, CaptureInv, TextInv, SendResult
  PROVE  TextInv'
<1>1. /\ guest = "send" /\ host = "read" /\ (stream => rest = Nothing) /\ guest' = "closed"
      /\ UNCHANGED <<stream, buf, truncated, rest, host, got>>
  BY DEF SendResult, Nothing, captureVars
<1> SUFFICES ASSUME NEW o \in Outputs
             PROVE  /\ ~stream => rest[o] = Captured(o)'
                    /\ \E cut : CutsOf(Captured(o), o, cut)'
  BY <1>1, Zenon DEF TextInv
<1> DEFINE s == Captured(o)
<1>2. s' = s /\ s \in Seq(Bytes) /\ Len(s) \in Nat /\ Received(o)' = Received(o)
  BY <1>1, CapturedType DEF Captured, Received
<1>3. ~stream => rest[o] = s
  BY <1>1 DEF TextInv
<1>4. PICK cut : CutsOf(s, o, cut)
  BY <1>1 DEF TextInv
<1> HIDE DEF s
<1>5. CASE stream
  <2>1. /\ Len(wire) \in Nat /\ Len(wire') = Len(wire) + 1 /\ wire'[Len(wire) + 1] = [kind |-> "result"]
        /\ \A k \in 1..Len(wire) : wire'[k] = wire[k]
    <3>1. Len(wire) \in Nat
      BY LenProperties DEF StreamInv, StreamTypes
    <3>2. /\ Len(wire') = Len(wire) + 1 /\ wire'[Len(wire')] = [kind |-> "result"]
          /\ \A k \in 1..Len(wire) : wire'[k] = wire[k]
      BY <1>5, ResultSent, Zenon
    <3> QED
      BY <3>1, <3>2, Zenon
  <2> DEFINE n == Len(wire) + 1
  <2>2. n \in Nat \ {0} /\ cut \in [1..n -> Nat] /\ \A k \in 1..n : cut[k] <= Len(s)
    BY <1>4, <2>1 DEF CutsOf
  <2>3. Unsent(o)' = Slice(s, cut[n], Len(s))
    BY <1>1, <1>4, <1>5 DEF CutsOf, Unsent
  <2> HIDE DEF n
  <2>4. PICK new \in [1..n + 1 -> Nat] : new[n + 1] = cut[n] /\ \A k \in 1..n : new[k] = cut[k]
    <3> DEFINE f == [k \in 1..n + 1 |-> IF k = n + 1 THEN cut[n] ELSE cut[k]]
    <3>1. f \in [1..n + 1 -> Nat] /\ f[n + 1] = cut[n] /\ \A k \in 1..n : f[k] = cut[k]
      BY <2>2
    <3> HIDE DEF f
    <3> QED
      BY <3>1, Zenon
  <2>5. \A k \in 1..n + 1 : new[k] <= Len(s)
    BY <2>2, <2>4
  <2>6. ASSUME NEW k \in 1..n
        PROVE  /\ ~Frame(o, wire'[k]) => new[k + 1] = new[k]
               /\ Frame(o, wire'[k]) =>
                    /\ new[k] <= new[k + 1] /\ wire'[k].data = Transmitted(Slice(s, new[k], new[k + 1]))
                    /\ new[k + 1] = Len(s) \/ (stream /\ new[k + 1] = new[k] + MaxStreamFrameBytes)
    <3>1. CASE k = n
      BY <2>1, <2>2, <2>4, <3>1 DEF n, Frame
    <3>2. CASE k # n
      <4>1. k \in 1..Len(wire) /\ k + 1 \in 1..n
        BY <2>1, <2>2, <3>2 DEF n
      <4>2. wire'[k] = wire[k] /\ new[k] = cut[k] /\ new[k + 1] = cut[k + 1]
        BY <2>1, <2>4, <4>1
      <4> QED
        BY <1>4, <4>1, <4>2, Zenon DEF CutsOf
    <3> QED
      BY <3>1, <3>2
  <2>7. new[1] = cut[1] /\ Len(wire') = n
    BY <2>1, <2>2, <2>4 DEF n
  <2>8. Unsent(o)' = Slice(s, new[n + 1], Len(s))
    BY <2>3, <2>4
  <2>9. WholeText(s) => Received(o) = Slice(s, 0, new[1]) /\ Boundary(s, new[1])
    BY <1>4, <2>7 DEF CutsOf
  <2>10. CutsOf(s, o, new)'
    BY <1>1, <1>2, <2>4, <2>5, <2>6, <2>7, <2>8, <2>9, Zenon DEF CutsOf
  <2> QED
    BY <1>5, <2>10, Zenon DEF s
<1>6. CASE ~stream
  <2>1. /\ Len(wire') = 3 /\ wire'[3] = [kind |-> "result"]
        /\ wire'[1] = Output("stdout", Transmitted(rest["stdout"]))
        /\ wire'[2] = Output("stderr", Transmitted(rest["stderr"]))
    BY <1>6, ResultSent, Zenon
  <2>2. got = << >>
    BY <1>1, <1>6 DEF StreamInv, PhaseInv
  <2>3. Received(o)' = << >>
    BY <1>1, <2>2, JoinedEmpty DEF Received
  <2>4. /\ Slice(s, 0, 0) = << >> /\ Slice(s, 0, Len(s)) = s /\ Slice(s, Len(s), Len(s)) = << >>
    BY <1>2, SliceEnds
  <2> DEFINE at == IF o = "stdout" THEN 1 ELSE 2
  <2>5. at \in {1, 2} /\ \A k \in {1, 2, 3} : Frame(o, wire'[k]) <=> k = at
    BY <2>1 DEF Frame, Output, Outputs
  <2>6. wire'[at].data = Transmitted(s)
    BY <1>3, <1>6, <2>1 DEF Output, Outputs
  <2> HIDE DEF at
  <2>7. PICK new \in [1..4 -> Nat] : \A k \in 1..4 : new[k] = IF k <= at THEN 0 ELSE Len(s)
    <3> DEFINE f == [k \in 1..4 |-> IF k <= at THEN 0 ELSE Len(s)]
    <3>1. f \in [1..4 -> Nat] /\ \A k \in 1..4 : f[k] = IF k <= at THEN 0 ELSE Len(s)
      BY <1>2
    <3> HIDE DEF f
    <3> QED
      BY <3>1
  <2>8. new[1] = 0 /\ new[4] = Len(s) /\ \A k \in 1..4 : new[k] <= Len(s)
    BY <1>2, <2>5, <2>7
  <2>9. ASSUME NEW k \in 1..3
        PROVE  /\ ~Frame(o, wire'[k]) => new[k + 1] = new[k]
               /\ Frame(o, wire'[k]) =>
                    /\ new[k] <= new[k + 1] /\ wire'[k].data = Transmitted(Slice(s, new[k], new[k + 1]))
                    /\ new[k + 1] = Len(s) \/ (stream /\ new[k + 1] = new[k] + MaxStreamFrameBytes)
    <3>1. k \in {1, 2, 3} /\ k \in 1..4 /\ k + 1 \in 1..4
      OBVIOUS
    <3>2. CASE k = at
      <4>1. new[k] = 0 /\ new[k + 1] = Len(s)
        BY <2>5, <2>7, <3>1, <3>2
      <4> QED
        BY <1>2, <2>4, <2>5, <2>6, <3>1, <3>2, <4>1
    <3>3. CASE k # at
      <4>1. new[k + 1] = new[k]
        BY <2>5, <2>7, <3>1, <3>3
      <4> QED
        BY <2>5, <3>1, <3>3, <4>1, Zenon
    <3> QED
      BY <3>2, <3>3
  <2>10. Unsent(o)' = << >>
    BY <1>1, <1>6 DEF Unsent
  <2>11. Len(wire') + 1 = 4
    BY <2>1
  <2>12. CutsOf(s, o, new)'
    BY <1>1, <1>2, <2>1, <2>3, <2>4, <2>7, <2>8, <2>9, <2>10, <2>11, Zenon DEF CutsOf, Boundary
  <2> QED
    BY <1>2, <1>3, <1>6, <2>12, Zenon DEF s
<1> QED
  BY <1>5, <1>6

(* Reading the result: everything was received.  Reading output: what was  *)
(* received grows by the frame, which is accepted only if no character was *)
(* cut (or if it is all there is).                                         *)
LEMMA ReadText ==
  ASSUME StreamInv, CaptureInv, TextInv, ExecStreamReads \/ ExecReads
  PROVE  TextInv'
<1>1. host = "read" /\ UNCHANGED <<stream, guest, rest, buf, truncated>>
  BY Reads DEF captureVars
<1>2. /\ Len(wire) \in Nat \ {0} /\ Head(wire) = wire[1] /\ wire[1] \in Frames
      /\ Len(wire') = Len(wire) - 1
      /\ \A k \in 1..Len(wire') : wire'[k] = wire[k + 1] /\ k + 1 \in 1..Len(wire)
      /\ guest # "run" /\ 1 \in 1..Len(wire)
  BY WireRead
<1> SUFFICES ASSUME NEW o \in Outputs
             PROVE  /\ host' = "read" => \E cut : CutsOf(Captured(o), o, cut)'
                    /\ host' = "result" /\ WholeText(Captured(o)') => Received(o)' = Captured(o)'
  <2>1. \A o \in Outputs : Captured(o)' = Captured(o)
    BY <1>1 DEF Captured
  <2> QED
    BY <1>1, <1>2, <2>1, Zenon DEF TextInv
<1> DEFINE s == Captured(o)
<1>3. s' = s /\ s \in Seq(Bytes) /\ Len(s) \in Nat
  BY <1>1, CapturedType DEF Captured
<1>4. PICK cut : CutsOf(s, o, cut)
  BY <1>1, <1>2 DEF TextInv
<1> HIDE DEF s
<1> DEFINE n == Len(wire)
<1>5. /\ n \in Nat \ {0} /\ cut \in [1..n + 1 -> Nat] /\ \A k \in 1..n + 1 : cut[k] <= Len(s)
      /\ Unsent(o) = Slice(s, cut[n + 1], Len(s))
  BY <1>2, <1>4, Zenon DEF CutsOf
<1>6. CASE ReadsResult
  <2>1. wire[1].kind = "result" /\ host' = "result" /\ UNCHANGED got
    BY <1>2, <1>6 DEF ReadsResult
  <2>2. n = 1 /\ guest = "closed" /\ (stream => rest = Nothing)
    BY <1>2, <2>1 DEF StreamInv, PhaseInv
  <2>3. Unsent(o) = << >> /\ Len(<< >>) = 0
    <3>1. stream => rest[o] = << >>
      BY <2>2, Zenon DEF Nothing
    <3> QED
      BY <2>2, <3>1 DEF Unsent
  <2>4. cut[2] = cut[1]
    BY <1>2, <1>4, <2>1 DEF CutsOf, Frame
  <2>5. cut[2] \in Nat /\ cut[2] <= Len(s) /\ Slice(s, cut[2], Len(s)) = << >>
    BY <1>5, <2>2, <2>3
  <2>6. cut[1] = Len(s)
    <3>1. Len(s) <= Len(s)
      BY <1>3
    <3>2. Len(Slice(s, cut[2], Len(s))) = Len(s) - cut[2]
      BY <1>3, <2>5, <3>1, SliceProperties, Zenon
    <3>3. Len(s) - cut[2] = 0
      BY <2>3, <2>5, <3>2
    <3> QED
      BY <1>3, <2>4, <2>5, <3>3
  <2>7. Slice(s, 0, Len(s)) = s
    BY <1>3, SliceEnds
  <2>8. WholeText(s) => Received(o) = s
    BY <1>4, <2>6, <2>7, Zenon DEF CutsOf
  <2>9. Received(o)' = Received(o)
    BY <2>1 DEF Received
  <2> QED
    BY <1>3, <2>1, <2>8, <2>9 DEF s
<1>7. CASE ReadsOutput
  <2> DEFINE m == wire[1]
  <2>1. m \in OutputFrames /\ m.kind = "output" /\ got' = Append(got, m) /\ host' = "read"
    BY <1>1, <1>2, <1>7, FrameKinds DEF ReadsOutput
  <2>2. stream => Size(m.data) <= MaxStreamFrameBytes
    BY <1>2, <1>7 DEF ReadsOutput
  <2>3. Received(o)' = Received(o) \o (IF m.name = o THEN m.data ELSE << >>)
    <3>1. got \in Seq(OutputFrames)
      BY DEF StreamInv, StreamTypes
    <3> HIDE DEF m
    <3>2. Joined(Append(got, m), o) = Joined(got, o) \o (IF m.name = o THEN m.data ELSE << >>)
      BY <2>1, <3>1, JoinedAppend, Zenon
    <3> QED
      BY <2>1, <3>2, Zenon DEF Received
  <2>4. cut[1] \in Nat /\ cut[2] \in Nat /\ cut[1] <= Len(s) /\ cut[2] <= Len(s) /\ 1 + 1 = 2
    BY <1>5
  <2>5. ASSUME WholeText(s)
        PROVE  Received(o)' = Slice(s, 0, cut[2]) /\ Boundary(s, cut[2])
    <3>1. Received(o) = Slice(s, 0, cut[1]) /\ Boundary(s, cut[1])
      BY <1>4, <2>5, Zenon DEF CutsOf
    <3>2. CASE m.name = o
      <4>1. Frame(o, wire[1])
        BY <2>1, <3>2, Zenon DEF Frame
      <4>2. /\ cut[1] <= cut[2] /\ m.data = Transmitted(Slice(s, cut[1], cut[2]))
            /\ cut[2] = Len(s) \/ (stream /\ cut[2] = cut[1] + MaxStreamFrameBytes)
        BY <1>2, <1>4, <2>4, <4>1 DEF CutsOf
      <4>3. cut[2] = Len(s) \/ Size(Transmitted(Slice(s, cut[1], cut[2]))) <= cut[2] - cut[1]
        BY <2>2, <2>4, <4>2, LimitsAssumption
      <4>4. m.data = Slice(s, cut[1], cut[2]) /\ Boundary(s, cut[2])
        BY <1>3, <2>4, <2>5, <3>1, <4>2, <4>3, FrameIsKept, Zenon
      <4>5. Slice(s, 0, cut[1]) \o Slice(s, cut[1], cut[2]) = Slice(s, 0, cut[2])
        BY <1>3, <2>4, <4>2, SlicesJoin, Zenon
      <4> QED
        BY <2>3, <3>1, <3>2, <4>4, <4>5, Zenon
    <3>3. CASE m.name # o
      <4>1. cut[2] = cut[1]
        BY <1>2, <1>4, <2>4, <3>3 DEF CutsOf, Frame
      <4>2. 0 \in Nat /\ 0 <= cut[1]
        BY <2>4
      <4>3. Slice(s, 0, cut[1]) \in Seq(Bytes)
        BY <1>3, <2>4, <4>2, SliceProperties, Zenon
      <4>4. Slice(s, 0, cut[1]) \o << >> = Slice(s, 0, cut[1])
        BY <4>3, ConcatEmptySeq, Zenon
      <4> QED
        BY <2>3, <3>1, <3>3, <4>1, <4>4, Zenon
    <3> QED
      BY <3>2, <3>3
  <2> HIDE DEF m, n
  <2>6. PICK new \in [1..n -> Nat] : \A k \in 1..n : new[k] = cut[k + 1]
    <3> DEFINE f == [k \in 1..n |-> cut[k + 1]]
    <3>1. f \in [1..n -> Nat] /\ \A k \in 1..n : f[k] = cut[k + 1]
      BY <1>5
    <3> HIDE DEF f
    <3> QED
      BY <3>1, Zenon
  <2>7. new[1] = cut[2] /\ new[n] = cut[n + 1] /\ \A k \in 1..n : new[k] <= Len(s)
    BY <1>5, <2>6
  <2>8. Len(wire') + 1 = n
    BY <1>2, <1>5 DEF n
  <2>9. ASSUME NEW k \in 1..Len(wire')
        PROVE  /\ ~Frame(o, wire'[k]) => new[k + 1] = new[k]
               /\ Frame(o, wire'[k]) =>
                    /\ new[k] <= new[k + 1] /\ wire'[k].data = Transmitted(Slice(s, new[k], new[k + 1]))
                    /\ new[k + 1] = Len(s) \/ (stream /\ new[k + 1] = new[k] + MaxStreamFrameBytes)
    <3>1. k \in 1..n /\ k + 1 \in 1..n
      BY <1>5, <2>8
    <3>2. wire'[k] = wire[k + 1] /\ k + 1 \in 1..Len(wire)
      BY <1>2
    <3>3. new[k] = cut[k + 1] /\ new[k + 1] = cut[(k + 1) + 1]
      BY <2>6, <3>1
    <3> QED
      BY <1>4, <3>2, <3>3, Zenon DEF CutsOf
  <2>10. Unsent(o)' = Slice(s, new[n], Len(s))
    BY <1>1, <1>5, <2>7 DEF Unsent
  <2>11. CutsOf(s, o, new)'
    BY <1>1, <1>3, <2>5, <2>6, <2>7, <2>8, <2>9, <2>10, Zenon DEF CutsOf
  <2> QED
    BY <2>1, <2>11, Zenon DEF s
<1>8. CASE FailsToRead
  BY <1>8 DEF FailsToRead
<1> QED
  BY <1>6, <1>7, <1>8, Reads, Zenon

(* The result of a whole execution is exact: when the client has the       *)
(* result, what it has of a text is the text as it was captured, although  *)
(* frames are cut without regard to characters; for any sizes of writes,   *)
(* buffers and frames.                                                     *)
THEOREM TextIsExact == Spec => []TextExact
<1>1. Init => TextInv
  BY DEF Init, TextInv
<1>2. ASSUME StreamInv, CaptureInv, TextInv, [Next]_vars PROVE TextInv'
  <2>1. CASE UNCHANGED vars
    BY <1>2, <2>1, TextUntouched DEF vars, captureVars
  <2>2. ASSUME NEW o \in Outputs, NEW p \in Chunks, Write(o, p) PROVE TextInv'
    BY <1>2, <2>2, WriteText
  <2>3. CASE Refuse
    BY <1>2, <2>3, RefuseText
  <2>4. CASE Finish
    BY <1>2, <2>4, FinishText
  <2>5. ASSUME NEW o \in Outputs, SendFrame(o) PROVE TextInv'
    BY <1>2, <2>5, SendFrameText
  <2>6. CASE SendResult
    BY <1>2, <2>6, SendResultText, Zenon
  <2>7. CASE GiveUp \/ Lose \/ ClientLeaves
    BY <1>2, <2>7, TextUntouched DEF GiveUp, Lose, ClientLeaves, captureVars
  <2>8. CASE ExecStreamReads \/ ExecReads
    BY <1>2, <2>8, ReadText
  <2> QED
    BY <1>2, <2>1, <2>2, <2>3, <2>4, <2>5, <2>6, <2>7, <2>8, Zenon DEF Next
<1>3. TextInv => TextExact
  BY DEF TextInv, TextExact
<1> QED
  BY <1>1, <1>2, <1>3, CaptureInvariant, StreamInvariant, PTL DEF Spec

-----------------------------------------------------------------------------
(* The sizes of frames.  streamResult cuts by bytes before they are        *)
(* encoded, and the host measures what it has decoded.                     *)
FrameLengths ==
  stream => \A k \in 1..Len(wire) :
              wire[k].kind = "output" => Len(wire[k].data) <= MaxStreamFrameBytes

FrameBound ==
  stream => \A k \in 1..Len(wire) :
              wire[k].kind = "output" => Size(wire[k].data) <= 3 * MaxStreamFrameBytes

(* No byte becomes more than three, and a text without replacements is as  *)
(* long as its bytes.                                                      *)
LEMMA SizeBound ==
  ASSUME NEW s \in Seq(Bytes \cup {"r"})
  PROVE  /\ Size(s) <= 3 * Len(s) /\ Size(s) \in Nat
         /\ (\A k \in 1..Len(s) : s[k] # "r") => Size(s) = Len(s)
<1> DEFINE R == {k \in 1..Len(s) : s[k] = "r"}
           c == Cardinality(R)
<1>1. Len(s) \in Nat
  BY LenProperties
<1>2. IsFiniteSet(1..Len(s)) /\ Cardinality(1..Len(s)) = Len(s)
  <2>1. /\ IsFiniteSet(1..Len(s))
        /\ Cardinality(1..Len(s)) = IF 1 > Len(s) THEN 0 ELSE Len(s) - 1 + 1
    BY <1>1, FS_Interval
  <2> QED
    BY <1>1, <2>1
<1>3. R \subseteq 1..Len(s)
  OBVIOUS
<1> HIDE DEF R
<1>4. IsFiniteSet(R) /\ Cardinality(R) <= Len(s)
  BY <1>2, <1>3, FS_Subset, Zenon
<1>5. Cardinality(R) \in Nat
  BY <1>4, FS_CardinalityType, Zenon
<1>6. Size(s) = Len(s) + 2 * c
  BY Zenon DEF Size, R
<1>7. (\A k \in 1..Len(s) : s[k] # "r") => c = 0
  <2> SUFFICES ASSUME \A k \in 1..Len(s) : s[k] # "r" PROVE c = 0
    BY Zenon
  <2>1. R = {}
    BY DEF R
  <2> QED
    BY <2>1, FS_EmptySet, Zenon
<1> HIDE DEF c
<1>8. c \in Nat /\ c <= Len(s)
  BY <1>4, <1>5, Zenon DEF c
<1> QED
  BY <1>1, <1>6, <1>7, <1>8

(* An output frame on its way was there before, or is what streamResult    *)
(* takes from the rest of an output.                                       *)
LEMMA FramesChange ==
  ASSUME StreamInv, [Next]_vars, NEW k \in 1..Len(wire'), wire'[k].kind = "output", stream'
  PROVE  /\ stream
         /\ \/ \E j \in 1..Len(wire) : wire'[k] = wire[j]
            \/ \E o \in Outputs :
                 wire'[k] = Output(o, Transmitted(Take(rest[o], MaxStreamFrameBytes)))
<1>1. stream /\ wire \in Seq(Frames) /\ Len(wire) \in Nat
  <2>1. stream' = stream
    BY Zenon DEF Next, vars, Write, Refuse, Finish, SendFrame, SendResult, GiveUp, Lose, ClientLeaves,
       ExecStreamReads, ExecReads, Receives
  <2> QED
    BY <2>1, LenProperties, Zenon DEF StreamInv, StreamTypes
<1>2. CASE wire' = wire
  BY <1>1, <1>2, Zenon
<1>3. ASSUME NEW m \in Frames, wire' = Append(wire, m)
      PROVE  (\E j \in 1..Len(wire) : wire'[k] = wire[j]) \/ wire'[k] = m
  <2>1. /\ Len(wire') = Len(wire) + 1 /\ wire'[Len(wire) + 1] = m
        /\ \A j \in 1..Len(wire) : wire'[j] = wire[j]
    BY <1>1, <1>3, AppendProperties
  <2>2. k \in 1..Len(wire) \/ k = Len(wire) + 1
    BY <1>1, <2>1
  <2> QED
    BY <2>1, <2>2, Zenon
<1>4. CASE Refuse
  <2>1. PICK m \in Frames : m = [kind |-> "refused"] /\ wire' = Append(wire, m)
    BY <1>4, FrameKinds, Zenon DEF Refuse
  <2>2. wire'[k] # m
    BY <2>1
  <2>3. (\E j \in 1..Len(wire) : wire'[k] = wire[j]) \/ wire'[k] = m
    BY <1>3, <2>1, Zenon
  <2> QED
    BY <1>1, <2>2, <2>3, Zenon
<1>5. ASSUME NEW o \in Outputs, SendFrame(o)
      PROVE  \/ \E j \in 1..Len(wire) : wire'[k] = wire[j]
             \/ wire'[k] = Output(o, Transmitted(Take(rest[o], MaxStreamFrameBytes)))
  <2> DEFINE m == Output(o, Transmitted(Take(rest[o], MaxStreamFrameBytes)))
  <2>1. rest[o] \in Seq(Bytes) /\ MaxStreamFrameBytes \in Nat
    BY LimitsAssumption DEF StreamInv, StreamTypes
  <2>2. Take(rest[o], MaxStreamFrameBytes) \in Seq(Bytes)
    BY <2>1, TakeProperties, Zenon
  <2>3. Transmitted(Take(rest[o], MaxStreamFrameBytes)) \in Seq(Bytes \cup {"r"})
    BY <2>2, TransmittedProperties, Zenon
  <2>4. m \in Frames /\ wire' = Append(wire, m)
    BY <1>5, <2>3 DEF SendFrame, Output, OutputFrames, Frames
  <2> QED
    BY <1>3, <2>4, Zenon
<1>6. CASE SendResult
  <2>1. /\ Len(wire') = Len(wire) + 1 /\ wire'[Len(wire')] = [kind |-> "result"]
        /\ \A j \in 1..Len(wire) : wire'[j] = wire[j]
    BY <1>1, <1>6, ResultSent, Zenon
  <2>2. k # Len(wire')
    BY <2>1
  <2>3. k \in 1..Len(wire)
    BY <1>1, <2>1, <2>2
  <2> QED
    BY <1>1, <2>1, <2>3, Zenon
<1>7. CASE ExecStreamReads \/ ExecReads
  BY <1>1, <1>7, WireRead, Zenon
<1>8. UNCHANGED vars \/ (\E o \in Outputs, p \in Chunks : Write(o, p)) \/ Finish \/ GiveUp \/ Lose \/ ClientLeaves
        => wire' = wire
  BY Zenon DEF vars, Write, Finish, GiveUp, Lose, ClientLeaves
<1> QED
  BY <1>1, <1>2, <1>4, <1>5, <1>6, <1>7, <1>8, Zenon DEF Next

(* streamResult cuts frames of at most MaxStreamFrameBytes.                *)
LEMMA FrameLengthsKept ==
  ASSUME StreamInv, FrameLengths, [Next]_vars
  PROVE  FrameLengths'
<1> SUFFICES ASSUME NEW k \in 1..Len(wire'), wire'[k].kind = "output", stream'
             PROVE  Len(wire'[k].data) <= MaxStreamFrameBytes
  BY DEF FrameLengths
<1>1. ASSUME NEW o \in Outputs
      PROVE  Len(Output(o, Transmitted(Take(rest[o], MaxStreamFrameBytes))).data) <= MaxStreamFrameBytes
  <2>1. rest[o] \in Seq(Bytes) /\ MaxStreamFrameBytes \in Nat
    BY LimitsAssumption DEF StreamInv, StreamTypes
  <2> DEFINE t == Take(rest[o], MaxStreamFrameBytes)
  <2>2. t \in Seq(Bytes) /\ Len(t) <= MaxStreamFrameBytes
    BY <2>1, TakeProperties, Zenon
  <2> HIDE DEF t
  <2>3. Len(Transmitted(t)) = Len(t)
    BY <2>2, TransmittedProperties, Zenon
  <2> QED
    BY <2>2, <2>3 DEF t, Output
<1> QED
  BY <1>1, FramesChange, Zenon DEF FrameLengths

(* Encoding makes a frame at most three times as long as the bytes that    *)
(* streamResult cut, so that the host sees at most three times the cap.    *)
THEOREM FramesAreBounded == Spec => []FrameBound
<1>1. Init => FrameLengths
  BY EmptySeq DEF Init, FrameLengths
<1>2. ASSUME StreamInv, FrameLengths PROVE FrameBound
  <2> SUFFICES ASSUME NEW k \in 1..Len(wire), wire[k].kind = "output", stream
               PROVE  Size(wire[k].data) <= 3 * MaxStreamFrameBytes
    BY DEF FrameBound
  <2>1. wire[k].data \in Seq(Bytes \cup {"r"})
    BY <1>2, FrameKinds, ElementOfSeq DEF StreamInv, StreamTypes
  <2>2. Len(wire[k].data) <= MaxStreamFrameBytes /\ MaxStreamFrameBytes \in Nat
    BY <1>2, LimitsAssumption DEF FrameLengths
  <2> DEFINE d == wire[k].data
  <2> HIDE DEF d
  <2>3. Size(d) <= 3 * Len(d) /\ Size(d) \in Nat /\ Len(d) \in Nat
    BY <2>1, SizeBound, LenProperties, Zenon DEF d
  <2>4. Size(d) <= 3 * MaxStreamFrameBytes
    BY <2>2, <2>3 DEF d
  <2> QED
    BY <2>4 DEF d
<1> QED
  BY <1>1, <1>2, FrameLengthsKept, StreamInvariant, PTL DEF Spec

(* Text of characters of one byte.                                         *)
Plain == {"a"}

PlainText == Chunks \subseteq Seq(Plain) /\ Notice \in Seq(Plain)

PlainInv ==
  /\ buf \in [Outputs -> Seq(Plain)] /\ rest \in [Outputs -> Seq(Plain)]
  /\ stream => \A k \in 1..Len(wire) :
                 wire[k].kind = "output" => \A i \in 1..Len(wire[k].data) : wire[k].data[i] # "r"

(* Plain text is transmitted without replacements, wherever it is cut.     *)
LEMMA PlainTransmitted ==
  ASSUME NEW t \in Seq(Plain)
  PROVE  \A i \in 1..Len(Transmitted(t)) : Transmitted(t)[i] # "r"
<1>1. Len(t) \in Nat /\ \A i \in 1..Len(t) : t[i] = "a"
  BY LenProperties, ElementOfSeq DEF Plain
<1>2. t \in Seq(Bytes)
  <2>1. Plain \subseteq Bytes
    BY DEF Plain, Bytes
  <2> QED
    BY <2>1
<1>3. /\ Len(Transmitted(t)) = Len(t)
      /\ \A i \in 1..Len(t) : Transmitted(t)[i] = IF Whole(t, i) THEN t[i] ELSE "r"
  BY <1>2, TransmittedProperties, Zenon
<1> QED
  BY <1>1, <1>3 DEF Whole

(* Cutting a frame off plain text leaves plain text.                       *)
LEMMA PlainDrop ==
  ASSUME NEW t \in Seq(Plain), NEW n \in Nat
  PROVE  Drop(t, n) \in Seq(Plain)
<1>1. Len(t) \in Nat /\ \A k \in 1..Len(t) : t[k] \in Plain
  BY LenProperties, ElementOfSeq
<1>2. n + 1 \in Int /\ Len(t) \in Int /\ \A k \in n + 1..Len(t) : t[k] \in Plain
  BY <1>1
<1> QED
  BY <1>2, SubSeqProperties DEF Drop

(* A limitedBuffer holds no more than its limit.                           *)
LEMMA BufferFits ==
  ASSUME CaptureInv, NEW o \in Outputs
  PROVE  Len(buf[o]) \in Nat /\ Len(buf[o]) <= MaxOutputBytes
<1>1. /\ written[o] \in Seq(Bytes) /\ MaxOutputBytes \in Nat
      /\ buf[o] = Take(written[o], MaxOutputBytes)
  BY LimitsAssumption DEF CaptureInv, CaptureExact
<1>2. /\ AtMost(MaxOutputBytes, Len(written[o])) \in Nat
      /\ AtMost(MaxOutputBytes, Len(written[o])) <= MaxOutputBytes
      /\ Len(Take(written[o], MaxOutputBytes)) = AtMost(MaxOutputBytes, Len(written[o]))
  BY <1>1, TakeProperties, Zenon
<1> QED
  BY <1>1, <1>2, Zenon

(* What is captured and what is to be sent stay plain.                     *)
LEMMA PlainKept ==
  ASSUME PlainText, CaptureInv, [Next]_vars,
         buf \in [Outputs -> Seq(Plain)], rest \in [Outputs -> Seq(Plain)]
  PROVE  buf' \in [Outputs -> Seq(Plain)] /\ rest' \in [Outputs -> Seq(Plain)]
<1>1. ASSUME NEW o \in Outputs, NEW p \in Chunks, Write(o, p)
      PROVE  buf' \in [Outputs -> Seq(Plain)] /\ rest' = rest
  <2> DEFINE n == MaxOutputBytes - Len(buf[o])
             b == buf[o] \o Take(p, n)
  <2>1. rest' = rest /\ (buf' = buf \/ (~truncated[o] /\ buf' = [buf EXCEPT ![o] = b]))
    BY <1>1 DEF Write
  <2>2. Len(buf[o]) \in Nat /\ Len(buf[o]) <= MaxOutputBytes
    BY BufferFits
  <2>3. n \in Nat
    BY <2>2, LimitsAssumption
  <2> HIDE DEF n
  <2>4. Take(p, n) \in Seq(Plain)
    <3>1. p \in Seq(Plain)
      BY DEF PlainText
    <3> QED
      BY <2>3, <3>1, TakeProperties, Zenon
  <2>5. b \in Seq(Plain)
    BY <2>4, ConcatProperties
  <2> HIDE DEF b
  <2> QED
    BY <2>1, <2>5, Zenon
<1>2. ASSUME Finish PROVE buf' = buf /\ rest' \in [Outputs -> Seq(Plain)]
  <2>1. \A o \in Outputs : Captured(o) \in Seq(Plain)
    BY ConcatProperties DEF Captured, PlainText
  <2> QED
    BY <1>2, <2>1 DEF Finish, captureVars
<1>3. ASSUME NEW o \in Outputs, SendFrame(o)
      PROVE  buf' = buf /\ rest' \in [Outputs -> Seq(Plain)]
  <2>1. rest' = [rest EXCEPT ![o] = Drop(rest[o], MaxStreamFrameBytes)] /\ buf' = buf
    BY <1>3 DEF SendFrame, captureVars
  <2>2. Drop(rest[o], MaxStreamFrameBytes) \in Seq(Plain)
    BY PlainDrop, LimitsAssumption
  <2> QED
    BY <2>1, <2>2, Zenon
<1>4. UNCHANGED vars \/ Refuse \/ SendResult \/ GiveUp \/ Lose \/ ClientLeaves \/ ExecStreamReads \/ ExecReads
        => UNCHANGED <<buf, rest>>
  BY Zenon DEF vars, captureVars, Refuse, SendResult, GiveUp, Lose, ClientLeaves, ExecStreamReads,
     ExecReads, Receives
<1> QED
  BY <1>1, <1>2, <1>3, <1>4, Zenon DEF Next

(* Plain text keeps within the cap: no frame is longer than                *)
(* MaxStreamFrameBytes when it arrives.  It takes characters of several    *)
(* bytes to break FrameCap.                                                *)
THEOREM PlainTextFits ==
  ASSUME PlainText
  PROVE  Spec => []FrameCap
<1>1. Init => PlainInv
  <2>1. << >> \in Seq(Plain) /\ Len(<< >>) = 0
    BY EmptySeq
  <2> QED
    BY <2>1 DEF Init, PlainInv
<1>2. Init => FrameLengths
  BY EmptySeq DEF Init, FrameLengths
<1>3. ASSUME StreamInv, CaptureInv, PlainInv, [Next]_vars PROVE PlainInv'
  <2>1. buf' \in [Outputs -> Seq(Plain)] /\ rest' \in [Outputs -> Seq(Plain)]
    BY <1>3, PlainKept, Zenon DEF PlainInv
  <2>2. ASSUME NEW o \in Outputs,
               NEW i \in 1..Len(Output(o, Transmitted(Take(rest[o], MaxStreamFrameBytes))).data)
        PROVE  Output(o, Transmitted(Take(rest[o], MaxStreamFrameBytes))).data[i] # "r"
    <3>1. rest[o] \in Seq(Plain) /\ MaxStreamFrameBytes \in Nat
      BY <1>3, LimitsAssumption DEF PlainInv
    <3>2. Take(rest[o], MaxStreamFrameBytes) \in Seq(Plain)
      BY <3>1, TakeProperties, Zenon
    <3> QED
      BY <2>2, <3>2, PlainTransmitted DEF Output
  <2>3. ASSUME NEW k \in 1..Len(wire'), wire'[k].kind = "output", stream'
        PROVE  \A i \in 1..Len(wire'[k].data) : wire'[k].data[i] # "r"
    BY <1>3, <2>2, <2>3, FramesChange, Zenon DEF PlainInv
  <2> QED
    BY <2>1, <2>3, Zenon DEF PlainInv
<1>4. ASSUME StreamInv, PlainInv, FrameLengths PROVE FrameCap
  <2> SUFFICES ASSUME NEW k \in 1..Len(wire), wire[k].kind = "output", stream
               PROVE  Size(wire[k].data) <= MaxStreamFrameBytes
    BY DEF FrameCap
  <2>1. wire[k].data \in Seq(Bytes \cup {"r"})
    BY <1>4, FrameKinds, ElementOfSeq DEF StreamInv, StreamTypes
  <2>2. Size(wire[k].data) = Len(wire[k].data)
    BY <1>4, <2>1, SizeBound, Zenon DEF PlainInv
  <2> QED
    BY <1>4, <2>2 DEF FrameLengths
<1> QED
  BY <1>1, <1>2, <1>3, <1>4, FrameLengthsKept, CaptureInvariant, StreamInvariant, PTL DEF Spec
=============================================================================
