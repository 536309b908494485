--------------------------- MODULE SnapshotProofs ---------------------------
(***************************************************************************)
(* What a snapshot build leaves on the host and in the store, for any      *)
(* number of builds, names and faults.  What a build does to the host      *)
(* concerns that build alone (HostInv); uploads to one name meet in the    *)
(* store (UploadInv).                                                      *)
(***************************************************************************)
EXTENDS SnapshotBuild, TLAPS

Points == {"dev", "proc", "image"}
Overlooked == Points \cup {"tar", "workspace"}
Contents == {"none", "blank", "partial", "full"}
Steps ==
  {"idle", "bootstrap", "mountDev", "mountProc", "install", "umountProc", "umountDev",
   "agent", "environment", "format", "mountImage", "populate", "umountImage",
   "removeMountDir", "pushKernel", "pushRootfs", "putManifest", "remove", "done", "dead"}

HostTypes ==
  /\ pc \in [Builds -> Steps] /\ name \in [Builds -> Names] /\ err \in [Builds -> BOOLEAN]
  /\ work \subseteq Builds /\ hostDev \in BOOLEAN
  /\ mounts \in [Builds -> SUBSET Points]
  /\ image \in [Builds -> Contents]
  /\ ignored \in [Builds -> SUBSET Overlooked]

StoreTypes ==
  /\ store \in [Names -> [Artifacts -> (Builds \cup {NoBuild}) \X (Contents \cup {"torn"})]]
  /\ pusher \in [Names -> Builds \cup {NoBuild}]
  /\ alone \subseteq Builds

(* Between a mount and its unmount.                                        *)
Within(what) ==
  [dev |-> {"mountProc", "install", "umountProc", "umountDev"},
   proc |-> {"install", "umountProc"},
   image |-> {"populate", "umountImage"}][what]

(* Something is mounted between its mount and its unmount only, or its     *)
(* unmount failed or its mount reported an error; an image that goes on to *)
(* its upload was populated.                                               *)
HostInv(b) ==
  /\ pc[b] # "dead" =>
       \A what \in mounts[b] : pc[b] \in Within(what) \/ what \in ignored[b]
  /\ pc[b] = "done" => b \notin work \/ ignored[b] \cap {"dev", "proc", "workspace"} # {}
  /\ pc[b] \in {"umountImage", "removeMountDir"} /\ ~err[b] =>
       image[b] = "full" \/ "tar" \in ignored[b]
  /\ pc[b] \in {"pushKernel", "pushRootfs"} =>
       image[b] = "full" \/ ignored[b] \cap {"tar", "image"} # {}

DevInv == hostDev \/ \E b \in Builds : "dev" \in ignored[b]

(* The two uploads after the kernel's; the steps from then on.             *)
Uploading == {"pushRootfs", "putManifest"}
Begun == Uploading \cup {"remove", "done", "dead"}

Mine(b, k) == store[name[b]][k][1] = b /\ store[name[b]][k][2] # "torn"

(* A build alone with its name has written what it is past, and no other   *)
(* build of the name is between its kernel and its manifest.               *)
UploadInv(b) ==
  /\ b \in alone => pc[b] \in Begun
  /\ store[name[b]]["manifest.json"][1] = b => pc[b] \in {"remove", "done", "dead"}
  /\ b \in alone /\ pusher[name[b]] = b =>
       /\ \A c \in Builds \ {b} : name[c] = name[b] => pc[c] \notin Uploading
       /\ pc[b] \in Uploading => Mine(b, "vmlinux")
       /\ pc[b] = "putManifest" => Mine(b, "rootfs.ext4")
       /\ pc[b] \in {"remove", "done"} /\ ~err[b] => \A k \in Artifacts : Mine(b, k)
       /\ store[name[b]]["manifest.json"][1] = b => Mine(b, "vmlinux") /\ Mine(b, "rootfs.ext4")

SnapInv ==
  /\ HostTypes /\ StoreTypes /\ DevInv /\ ImageComplete
  /\ \A b \in Builds : HostInv(b) /\ UploadInv(b)

(* The invariant of the builds holds at the start.                         *)
LEMMA SnapInit == Init => SnapInv
<1> SUFFICES ASSUME Init PROVE SnapInv
  OBVIOUS
<1>1. HostTypes
  BY DEF Init, HostTypes, Steps, Contents
<1>2. StoreTypes
  BY DEF Init, StoreTypes, Contents, Absent
<1>3. \A n \in Names, k \in Artifacts : store[n][k][1] = NoBuild
  BY DEF Init, Absent
<1>4. ImageComplete /\ DevInv
  BY <1>3 DEF Init, ImageComplete, DevInv, Artifacts
<1>5. ASSUME NEW b \in Builds PROVE HostInv(b) /\ UploadInv(b)
  <2>1. pc[b] = "idle" /\ mounts[b] = {} /\ b \notin alone /\ name[b] \in Names
    BY DEF Init
  <2>2. HostInv(b)
    BY <2>1 DEF HostInv
  <2>3. UploadInv(b)
    BY <1>3, <2>1, BuildsAssumption DEF UploadInv, Artifacts
  <2> QED
    BY <2>2, <2>3
<1> QED
  BY <1>1, <1>2, <1>4, <1>5 DEF SnapInv

-----------------------------------------------------------------------------
(* What a step of b leaves alone, and what it may ignore.                  *)
OwnOnly(b) ==
  /\ \A c \in Builds \ {b} :
       /\ pc'[c] = pc[c] /\ err'[c] = err[c] /\ image'[c] = image[c]
       /\ mounts'[c] = mounts[c] /\ ignored'[c] = ignored[c]
       /\ c \in work' <=> c \in work
  /\ \A c \in Builds : ignored[c] \subseteq ignored'[c]
  /\ name' = name

(* The step of b that a command, a mount or an unmount is.                 *)
LEMMA CommandShape ==
  ASSUME HostTypes, NEW b \in Builds, NEW l \in Steps, Succeeds(b, l) \/ Fails(b, l)
  PROVE  /\ pc' \in [Builds -> Steps] /\ err' \in [Builds -> BOOLEAN] /\ pc'[b] = l
         /\ \A c \in Builds \ {b} : pc'[c] = pc[c] /\ err'[c] = err[c]
         /\ Succeeds(b, l) => err'[b] = err[b]
         /\ Fails(b, l) => err'[b]
<1>1. pc' = [pc EXCEPT ![b] = l]
  BY DEF Succeeds, Fails, Goto
<1>2. pc' \in [Builds -> Steps] /\ pc'[b] = l /\ \A c \in Builds \ {b} : pc'[c] = pc[c]
  BY <1>1 DEF HostTypes
<1>3. CASE Succeeds(b, l)
  <2>1. err' = err
    BY <1>3 DEF Succeeds
  <2>2. ~Fails(b, l) \/ err'[b]
    BY DEF Fails, HostTypes
  <2> QED
    BY <1>2, <2>1, <2>2 DEF HostTypes
<1>4. CASE Fails(b, l)
  <2>1. err' = [err EXCEPT ![b] = TRUE]
    BY <1>4 DEF Fails
  <2>2. err' \in [Builds -> BOOLEAN] /\ err'[b] /\ \A c \in Builds \ {b} : err'[c] = err[c]
    BY <2>1 DEF HostTypes
  <2>3. Succeeds(b, l) => err'[b] = err[b]
    BY DEF Succeeds
  <2> QED
    BY <1>2, <2>2, <2>3, Zenon
<1> QED
  BY <1>3, <1>4

HostKept(b) == HostTypes' /\ OwnOnly(b) /\ HostInv(b)' /\ DevInv'

(* Steps with nothing to say about images.                                 *)
Plain == Steps \ {"umountImage", "removeMountDir", "pushKernel", "pushRootfs", "done", "dead"}

(* While no failure is forgotten and hostDev is left alone, DevInv holds.  *)
LEMMA DevKept ==
  ASSUME SnapInv, NEW b \in Builds, OwnOnly(b), UNCHANGED hostDev
  PROVE  DevInv'
  BY DEF SnapInv, DevInv, OwnOnly

(* A command in the workspace.                                             *)
LEMMA RunsKeep ==
  ASSUME SnapInv, NEW b \in Builds, NEW here \in Plain, NEW next \in Plain, NEW onError \in Plain,
         Runs(b, here, next, onError),
         \A what \in Points : here \in Within(what) => next \in Within(what) /\ onError \in Within(what)
  PROVE  HostKept(b)
<1>1. PICK l \in {next, onError} : Succeeds(b, l) \/ Fails(b, l)
  BY DEF Runs
<1>2. UNCHANGED <<name, work, mounts, image, hostDev, ignored>> /\ pc[b] = here
  BY DEF Runs, hostVars
<1>3. HostTypes /\ HostInv(b) /\ l \in Steps
  BY DEF SnapInv, Plain
<1>4. /\ pc' \in [Builds -> Steps] /\ err' \in [Builds -> BOOLEAN] /\ pc'[b] = l
      /\ \A c \in Builds \ {b} : pc'[c] = pc[c] /\ err'[c] = err[c]
  BY <1>1, <1>3, CommandShape
<1>5. HostTypes' /\ OwnOnly(b)
  BY <1>2, <1>3, <1>4 DEF HostTypes, OwnOnly
<1>6. HostInv(b)'
  <2>1. \A what \in mounts[b] : what \in Points /\ (l \in Within(what) \/ what \in ignored[b])
    BY <1>2, <1>3 DEF HostTypes, HostInv, Plain
  <2> QED
    BY <1>2, <1>4, <2>1 DEF HostInv, Plain
<1> QED
  BY <1>2, <1>5, <1>6, DevKept DEF HostKept

(* A mount, and the step before its unmount or the one after its failure.  *)
LEMMA MountKeeps ==
  ASSUME SnapInv, NEW b \in Builds, NEW here \in Plain, NEW what \in Points,
         NEW next \in Plain, NEW onError \in Plain \cup {"removeMountDir"},
         Mount(b, here, what, next, onError), next \in Within(what),
         \A w \in Points : here \in Within(w) => next \in Within(w) /\ onError \in Within(w)
  PROVE  HostKept(b)
<1>1. HostTypes /\ HostInv(b) /\ next \in Steps /\ onError \in Steps /\ pc[b] = here
  BY DEF SnapInv, Plain, Mount, Steps
<1>2. UNCHANGED <<name, work, image, hostDev>>
  BY DEF Mount
<1>3. \A w \in mounts[b] : w \in Points /\ (here \in Within(w) \/ w \in ignored[b])
  BY <1>1 DEF HostTypes, HostInv, Plain
<1>4. CASE Mounted(b, what) /\ Succeeds(b, next) /\ UNCHANGED ignored
  <2>1. /\ pc' \in [Builds -> Steps] /\ err' \in [Builds -> BOOLEAN] /\ pc'[b] = next
        /\ \A c \in Builds \ {b} : pc'[c] = pc[c] /\ err'[c] = err[c]
    BY <1>1, <1>4, CommandShape
  <2>2. /\ mounts' \in [Builds -> SUBSET Points] /\ mounts'[b] = mounts[b] \cup {what}
        /\ \A c \in Builds \ {b} : mounts'[c] = mounts[c]
    BY <1>1, <1>4 DEF Mounted, HostTypes
  <2>3. HostTypes' /\ OwnOnly(b)
    BY <1>1, <1>2, <1>4, <2>1, <2>2 DEF HostTypes, OwnOnly
  <2>4. HostInv(b)'
    BY <1>2, <1>3, <1>4, <2>1, <2>2 DEF HostInv, Plain
  <2> QED
    BY <1>2, <2>3, <2>4, DevKept DEF HostKept
<1>5. CASE UNCHANGED mounts /\ Fails(b, onError) /\ UNCHANGED ignored
  <2>1. /\ pc' \in [Builds -> Steps] /\ err' \in [Builds -> BOOLEAN] /\ pc'[b] = onError /\ err'[b]
        /\ \A c \in Builds \ {b} : pc'[c] = pc[c] /\ err'[c] = err[c]
    BY <1>1, <1>5, CommandShape
  <2>2. HostTypes' /\ OwnOnly(b)
    BY <1>1, <1>2, <1>5, <2>1 DEF HostTypes, OwnOnly
  <2>3. HostInv(b)'
    BY <1>2, <1>3, <1>5, <2>1 DEF HostInv, Plain
  <2> QED
    BY <1>2, <2>2, <2>3, DevKept DEF HostKept
<1>6. CASE Mounted(b, what) /\ Fails(b, onError) /\ Ignores(b, what)
  <2>1. /\ pc' \in [Builds -> Steps] /\ err' \in [Builds -> BOOLEAN] /\ pc'[b] = onError /\ err'[b]
        /\ \A c \in Builds \ {b} : pc'[c] = pc[c] /\ err'[c] = err[c]
    BY <1>1, <1>6, CommandShape
  <2>2. /\ mounts' \in [Builds -> SUBSET Points] /\ mounts'[b] = mounts[b] \cup {what}
        /\ \A c \in Builds \ {b} : mounts'[c] = mounts[c]
    BY <1>1, <1>6 DEF Mounted, HostTypes
  <2>3. /\ ignored' \in [Builds -> SUBSET Overlooked] /\ ignored'[b] = ignored[b] \cup {what}
        /\ \A c \in Builds \ {b} : ignored'[c] = ignored[c]
    BY <1>1, <1>6 DEF Ignores, HostTypes, Overlooked
  <2>4. HostTypes' /\ OwnOnly(b)
    BY <1>1, <1>2, <2>1, <2>2, <2>3 DEF HostTypes, OwnOnly
  <2>5. \A w \in mounts'[b] : onError \in Within(w) \/ w \in ignored'[b]
    BY <1>3, <2>2, <2>3
  <2>6. HostInv(b)'
    BY <2>1, <2>5 DEF HostInv, Plain
  <2> QED
    BY <1>2, <2>4, <2>6, DevKept DEF HostKept
<1> QED
  BY <1>4, <1>5, <1>6 DEF Mount

(* A deferred unmount, which fails unnoticed or not at all.                *)
LEMMA UnmountKeeps ==
  ASSUME SnapInv, NEW b \in Builds, NEW here \in Plain \cup {"umountImage"}, NEW what \in Points,
         NEW next \in Plain \cup {"removeMountDir"}, Unmount(b, here, what, next),
         next = "removeMountDir" => here = "umountImage",
         \A w \in Points \ {what} : here \in Within(w) => next \in Within(w)
  PROVE  HostKept(b)
<1>1. HostTypes /\ HostInv(b) /\ next \in Steps /\ pc[b] = here
  BY DEF SnapInv, Plain, Unmount, Steps
<1>2. UNCHANGED <<name, err, work, image, hostDev>> /\ pc' = [pc EXCEPT ![b] = next]
  BY DEF Unmount, Goto
<1>3. pc' \in [Builds -> Steps] /\ pc'[b] = next /\ \A c \in Builds \ {b} : pc'[c] = pc[c]
  BY <1>1, <1>2 DEF HostTypes
<1>4. \A w \in mounts[b] : w \in Points /\ (here \in Within(w) \/ w \in ignored[b])
  BY <1>1 DEF HostTypes, HostInv, Plain
<1>5. /\ mounts' \in [Builds -> SUBSET Points] /\ mounts'[b] \subseteq mounts[b]
      /\ ignored' \in [Builds -> SUBSET Overlooked] /\ ignored[b] \subseteq ignored'[b]
      /\ what \notin mounts'[b] \/ what \in ignored'[b]
      /\ \A c \in Builds \ {b} : mounts'[c] = mounts[c] /\ ignored'[c] = ignored[c]
  <2>1. CASE Unmounted(b, what) /\ UNCHANGED ignored
    BY <1>1, <2>1 DEF Unmounted, HostTypes
  <2>2. CASE UNCHANGED mounts /\ Ignores(b, what)
    BY <1>1, <2>2 DEF Ignores, HostTypes, Overlooked
  <2> QED
    BY <2>1, <2>2 DEF Unmount
<1>6. HostTypes' /\ OwnOnly(b)
  BY <1>1, <1>2, <1>3, <1>5 DEF HostTypes, OwnOnly
<1>7. HostInv(b)'
  <2>1. \A w \in mounts'[b] : next \in Within(w) \/ w \in ignored'[b]
    BY <1>4, <1>5
  <2>2. next = "removeMountDir" /\ ~err[b] => image[b] = "full" \/ "tar" \in ignored'[b]
    BY <1>1, <1>5 DEF HostInv
  <2> QED
    BY <1>2, <1>3, <2>1, <2>2 DEF HostInv, Plain
<1> QED
  BY <1>2, <1>6, <1>7, DevKept DEF HostKept

(* Making the root file system.                                            *)
LEMMA RootfsKeeps ==
  ASSUME SnapInv, NEW b \in Builds, Build(b) \/ Rootfs(b)
  PROVE  HostKept(b)
<1> USE DEF Plain, Steps, Within, Points
<1>1. CASE Build(b)
  <2>1. HostTypes /\ HostInv(b) /\ pc[b] = "idle" /\ UNCHANGED <<name, mounts, image, hostDev, ignored>>
    BY <1>1 DEF SnapInv, Build
  <2>2. /\ pc' \in [Builds -> Steps] /\ err' \in [Builds -> BOOLEAN] /\ pc'[b] = "bootstrap"
        /\ \A c \in Builds \ {b} : pc'[c] = pc[c] /\ err'[c] = err[c]
    BY <1>1, <2>1, CommandShape DEF Build
  <2>3. HostTypes' /\ OwnOnly(b)
    BY <1>1, <2>1, <2>2 DEF HostTypes, OwnOnly, Build
  <2>4. HostInv(b)'
    BY <2>1, <2>2 DEF HostInv, HostTypes
  <2> QED
    BY <2>1, <2>3, <2>4, DevKept DEF HostKept
<1>2. CASE debootstrap(b)
  BY <1>2, RunsKeep DEF debootstrap
<1>3. CASE Install(b)
  BY <1>3, RunsKeep DEF Install
<1>4. CASE installGuestAgent(b)
  BY <1>4, RunsKeep DEF installGuestAgent
<1>5. CASE writeEnvironment(b)
  BY <1>5, RunsKeep DEF writeEnvironment
<1>6. CASE MountDev(b)
  BY <1>6, MountKeeps DEF MountDev
<1>7. CASE MountProc(b)
  BY <1>7, MountKeeps DEF MountProc
<1>8. CASE UmountProc(b)
  BY <1>8, UnmountKeeps DEF UmountProc
<1>9. CASE UmountDev(b)
  <2>1. PICK l \in {"remove", "agent"} : Unmount(b, "umountDev", "dev", l)
    BY <1>9 DEF UmountDev
  <2> QED
    BY <2>1, UnmountKeeps
<1> QED
  BY <1>1, <1>2, <1>3, <1>4, <1>5, <1>6, <1>7, <1>8, <1>9 DEF Rootfs

(* Making the image.                                                       *)
LEMMA ImageKeeps ==
  ASSUME SnapInv, NEW b \in Builds, Image(b)
  PROVE  HostKept(b)
<1>0. HostTypes /\ HostInv(b)
  BY DEF SnapInv
<1>1. CASE Format(b)
  <2>1. UNCHANGED <<name, work, mounts, hostDev, ignored>> /\ pc[b] = "format"
    BY <1>1 DEF Format
  <2>2. PICK l \in {"mountImage", "remove"} : Succeeds(b, l) \/ Fails(b, l)
    BY <1>1 DEF Format
  <2>3. /\ pc' \in [Builds -> Steps] /\ err' \in [Builds -> BOOLEAN] /\ pc'[b] = l
        /\ \A c \in Builds \ {b} : pc'[c] = pc[c] /\ err'[c] = err[c]
    BY <1>0, <2>2, CommandShape DEF Steps
  <2>4. image' \in [Builds -> Contents] /\ \A c \in Builds \ {b} : image'[c] = image[c]
    BY <1>0, <1>1 DEF Format, HostTypes, Contents
  <2>5. HostTypes' /\ OwnOnly(b)
    BY <1>0, <2>1, <2>3, <2>4 DEF HostTypes, OwnOnly
  <2>6. \A what \in mounts[b] : what \in ignored[b]
    BY <1>0, <2>1 DEF HostInv, HostTypes, Within, Points
  <2>7. HostInv(b)'
    BY <2>1, <2>3, <2>6 DEF HostInv
  <2> QED
    BY <2>1, <2>5, <2>7, DevKept DEF HostKept
<1>2. CASE MountImage(b)
  BY <1>2, MountKeeps DEF MountImage, Plain, Steps, Within, Points
<1>3. CASE Populate(b)
  <2>1. UNCHANGED <<name, work, mounts, hostDev>> /\ pc[b] = "populate"
    BY <1>3 DEF Populate
  <2>2. \A what \in mounts[b] : what = "image" \/ what \in ignored[b]
    BY <1>0, <2>1 DEF HostInv, HostTypes, Within, Points
  <2>3. CASE \/ image' = [image EXCEPT ![b] = "full"] /\ Succeeds(b, "umountImage") /\ UNCHANGED ignored
             \/ image' = [image EXCEPT ![b] = "partial"] /\ Fails(b, "umountImage") /\ UNCHANGED ignored
    <3>1. /\ pc' \in [Builds -> Steps] /\ err' \in [Builds -> BOOLEAN] /\ pc'[b] = "umountImage"
          /\ \A c \in Builds \ {b} : pc'[c] = pc[c] /\ err'[c] = err[c]
          /\ Fails(b, "umountImage") => err'[b]
      BY <1>0, <2>3, CommandShape DEF Steps
    <3>2. /\ image' \in [Builds -> Contents] /\ \A c \in Builds \ {b} : image'[c] = image[c]
          /\ image'[b] = "full" \/ err'[b]
      BY <1>0, <2>3, <3>1 DEF HostTypes, Contents
    <3>3. HostTypes' /\ OwnOnly(b)
      BY <1>0, <2>1, <2>3, <3>1, <3>2 DEF HostTypes, OwnOnly
    <3>4. HostInv(b)'
      BY <2>1, <2>2, <2>3, <3>1, <3>2 DEF HostInv, Within
    <3> QED
      BY <2>1, <3>3, <3>4, DevKept, Zenon DEF HostKept
  <2>4. CASE image' = [image EXCEPT ![b] = "partial"] /\ Ignores(b, "tar") /\ Goto(b, "umountImage") /\ UNCHANGED err
    <3>1. /\ pc' \in [Builds -> Steps] /\ pc'[b] = "umountImage"
          /\ \A c \in Builds \ {b} : pc'[c] = pc[c]
      BY <1>0, <2>4 DEF HostTypes, Goto, Steps
    <3>2. image' \in [Builds -> Contents] /\ \A c \in Builds \ {b} : image'[c] = image[c]
      BY <1>0, <2>4 DEF HostTypes, Contents
    <3>3. /\ ignored' \in [Builds -> SUBSET Overlooked] /\ ignored'[b] = ignored[b] \cup {"tar"}
          /\ \A c \in Builds \ {b} : ignored'[c] = ignored[c]
      BY <1>0, <2>4 DEF HostTypes, Ignores, Overlooked
    <3>4. HostTypes' /\ OwnOnly(b)
      BY <1>0, <2>1, <2>4, <3>1, <3>2, <3>3 DEF HostTypes, OwnOnly
    <3>5. HostInv(b)'
      BY <2>1, <2>2, <3>1, <3>3 DEF HostInv, Within
    <3> QED
      BY <2>1, <3>4, <3>5, DevKept DEF HostKept
  <2> QED
    BY <1>3, <2>3, <2>4 DEF Populate
<1>4. CASE UmountImage(b)
  BY <1>4, UnmountKeeps DEF UmountImage, Plain, Steps, Within, Points
<1>5. CASE RemoveMountDir(b)
  <2>1. UNCHANGED <<name, err, work, mounts, hostDev, ignored>> /\ pc[b] = "removeMountDir"
    BY <1>5 DEF RemoveMountDir
  <2>2. PICK l \in {"remove", "pushKernel"} : pc' = [pc EXCEPT ![b] = l] /\ (l = "pushKernel" => ~err[b])
    BY <1>5, Zenon DEF RemoveMountDir, Goto
  <2>3. pc' \in [Builds -> Steps] /\ pc'[b] = l /\ \A c \in Builds \ {b} : pc'[c] = pc[c]
    BY <1>0, <2>2 DEF HostTypes, Steps
  <2>4. /\ image' \in [Builds -> Contents] /\ \A c \in Builds \ {b} : image'[c] = image[c]
        /\ image'[b] = image[b] \/ "image" \in mounts[b]
    BY <1>0, <1>5 DEF RemoveMountDir, HostTypes, Contents
  <2>5. HostTypes' /\ OwnOnly(b)
    BY <1>0, <2>1, <2>3, <2>4 DEF HostTypes, OwnOnly
  <2>6. \A what \in mounts[b] : what \in ignored[b]
    BY <1>0, <2>1 DEF HostInv, HostTypes, Within, Points
  <2>7. l = "pushKernel" => image'[b] = "full" \/ ignored[b] \cap {"tar", "image"} # {}
    BY <1>0, <2>1, <2>2, <2>4, <2>6 DEF HostInv
  <2>8. HostInv(b)'
    BY <2>1, <2>3, <2>6, <2>7 DEF HostInv
  <2> QED
    BY <2>1, <2>5, <2>8, DevKept DEF HostKept
<1> QED
  BY <1>1, <1>2, <1>3, <1>4, <1>5 DEF Image

(* Uploading, removing the workspace and dying, on the host.               *)
LEMMA EndKeeps ==
  ASSUME SnapInv, NEW b \in Builds, Upload(b) \/ RemoveWorkspace(b) \/ Crash(b)
  PROVE  HostKept(b)
<1>0. HostTypes /\ HostInv(b)
  BY DEF SnapInv
<1>1. CASE Upload(b)
  <2>1. UNCHANGED <<name, work, mounts, image, hostDev, ignored>>
    BY <1>1 DEF Upload, PushKernel, PushRootfs, Put, Push, hostVars
  <2>2. PICK l \in {"pushRootfs", "putManifest", "remove"} :
          /\ Succeeds(b, l) \/ Fails(b, l)
          /\ pc[b] \in {"pushKernel", "pushRootfs", "putManifest"}
          /\ l = "pushRootfs" => pc[b] = "pushKernel"
    BY <1>1, Zenon DEF Upload, PushKernel, PushRootfs, Put, Push
  <2>3. /\ pc' \in [Builds -> Steps] /\ err' \in [Builds -> BOOLEAN] /\ pc'[b] = l
        /\ \A c \in Builds \ {b} : pc'[c] = pc[c] /\ err'[c] = err[c]
    BY <1>0, <2>2, CommandShape DEF Steps
  <2>4. HostTypes' /\ OwnOnly(b)
    BY <1>0, <2>1, <2>3 DEF HostTypes, OwnOnly
  <2>5. \A what \in mounts[b] : what \in ignored[b]
    BY <1>0, <2>2 DEF HostInv, HostTypes, Within, Points
  <2>6. HostInv(b)'
    BY <1>0, <2>1, <2>2, <2>3, <2>5 DEF HostInv
  <2> QED
    BY <2>1, <2>4, <2>6, DevKept DEF HostKept
<1>2. CASE RemoveWorkspace(b)
  <2>1. UNCHANGED <<name, err, mounts, image>> /\ pc[b] = "remove" /\ pc' = [pc EXCEPT ![b] = "done"]
    BY <1>2 DEF RemoveWorkspace, Goto
  <2>2. pc' \in [Builds -> Steps] /\ pc'[b] = "done" /\ \A c \in Builds \ {b} : pc'[c] = pc[c]
    BY <1>0, <2>1, Zenon DEF HostTypes, Steps
  <2>3. \A what \in mounts[b] : what \in ignored[b]
    BY <1>0, <2>1 DEF HostInv, HostTypes, Within, Points
  <2>4. CASE UNCHANGED <<hostDev, ignored>> /\ work' = work \ {b}
    <3>1. HostTypes' /\ OwnOnly(b)
      BY <1>0, <2>1, <2>2, <2>4 DEF HostTypes, OwnOnly
    <3>2. HostInv(b)'
      BY <2>1, <2>2, <2>3, <2>4 DEF HostInv
    <3> QED
      BY <2>4, <3>1, <3>2, DevKept DEF HostKept
  <2>5. CASE /\ mounts[b] \cap {"dev", "proc"} # {} /\ UNCHANGED <<work, ignored>>
             /\ hostDev' = (hostDev /\ "dev" \notin mounts[b])
    <3>1. hostDev' \in BOOLEAN
      BY <2>5
    <3>2. HostTypes' /\ OwnOnly(b)
      BY <1>0, <2>1, <2>2, <2>5, <3>1 DEF HostTypes, OwnOnly
    <3>3. HostInv(b)'
      BY <2>1, <2>2, <2>3, <2>5 DEF HostInv
    <3>4. DevInv'
      BY <2>3, <2>5, Zenon DEF DevInv, SnapInv
    <3> QED
      BY <3>2, <3>3, <3>4 DEF HostKept
  <2>6. CASE UNCHANGED <<work, hostDev>> /\ Ignores(b, "workspace")
    <3>1. /\ ignored' \in [Builds -> SUBSET Overlooked] /\ ignored'[b] = ignored[b] \cup {"workspace"}
          /\ \A c \in Builds \ {b} : ignored'[c] = ignored[c]
      BY <1>0, <2>6 DEF Ignores, HostTypes, Overlooked
    <3>2. HostTypes' /\ OwnOnly(b)
      BY <1>0, <2>1, <2>2, <2>6, <3>1 DEF HostTypes, OwnOnly
    <3>3. HostInv(b)'
      BY <2>1, <2>2, <2>3, <3>1 DEF HostInv
    <3> QED
      BY <2>6, <3>2, <3>3, DevKept DEF HostKept
  <2> QED
    BY <1>2, <2>4, <2>5, <2>6 DEF RemoveWorkspace
<1>3. CASE Crash(b)
  <2>1. UNCHANGED <<name, err, work, mounts, image, hostDev, ignored>> /\ pc' = [pc EXCEPT ![b] = "dead"]
    BY <1>3 DEF Crash, Goto, hostVars
  <2>2. pc' \in [Builds -> Steps] /\ pc'[b] = "dead" /\ \A c \in Builds \ {b} : pc'[c] = pc[c]
    BY <1>0, <2>1 DEF HostTypes, Steps
  <2>3. HostTypes' /\ OwnOnly(b)
    BY <1>0, <2>1, <2>2 DEF HostTypes, OwnOnly
  <2>4. HostInv(b)'
    BY <2>2 DEF HostInv
  <2> QED
    BY <2>1, <2>3, <2>4, DevKept DEF HostKept
<1> QED
  BY <1>1, <1>2, <1>3

-----------------------------------------------------------------------------
(* The host part of the builds that do not move.                           *)
LEMMA HostsKept ==
  ASSUME SnapInv, NEW b \in Builds, HostKept(b)
  PROVE  \A c \in Builds : HostInv(c)'
<1> SUFFICES ASSUME NEW c \in Builds \ {b} PROVE HostInv(c)'
  BY DEF HostKept
<1>1. HostInv(c)
  BY DEF SnapInv
<1>2. /\ pc'[c] = pc[c] /\ err'[c] = err[c] /\ image'[c] = image[c]
      /\ mounts'[c] = mounts[c] /\ ignored'[c] = ignored[c]
      /\ c \in work' <=> c \in work
  BY DEF HostKept, OwnOnly
<1> QED
  BY <1>1, <1>2 DEF HostInv

(* A step that leaves the store alone, of a build that has not begun to    *)
(* upload, or has ended it.                                                *)
LEMMA NoUpload ==
  ASSUME SnapInv, NEW b \in Builds, HostKept(b), UNCHANGED storeVars,
         pc'[b] \notin Uploading,
         pc[b] \in Begun =>
           pc'[b] = "dead" \/ (pc[b] = "remove" /\ pc'[b] = "done" /\ err'[b] = err[b])
  PROVE  SnapInv'
<1>1. HostTypes' /\ DevInv' /\ OwnOnly(b) /\ \A c \in Builds : HostInv(c)'
  BY HostsKept DEF HostKept
<1>2. StoreTypes' /\ store' = store /\ pusher' = pusher /\ alone' = alone /\ name' = name
  BY <1>1 DEF SnapInv, StoreTypes, storeVars, OwnOnly
<1>3. ASSUME NEW n \in Names, store[n]["rootfs.ext4"][1] # NoBuild
      PROVE  ignored[store[n]["rootfs.ext4"][1]] \subseteq ignored'[store[n]["rootfs.ext4"][1]]
  <2>1. store[n]["rootfs.ext4"][1] \in Builds
    BY <1>3 DEF SnapInv, StoreTypes, Artifacts
  <2> QED
    BY <1>1, <2>1 DEF OwnOnly
<1>4. ImageComplete'
  BY <1>2, <1>3 DEF SnapInv, ImageComplete
<1>5. ASSUME NEW c \in Builds PROVE UploadInv(c)'
  <2>1. UploadInv(c)
    BY DEF SnapInv
  <2>2. \A k \in Artifacts : Mine(c, k)' <=> Mine(c, k)
    BY <1>2 DEF Mine
  <2>3. CASE c = b
    <3>1. c \in alone => pc[c] \in Begun /\ pc'[c] \in Begun
      BY <2>1, <2>3, Zenon DEF UploadInv, Begun
    <3>2. \A d \in Builds \ {c} : pc'[d] = pc[d]
      BY <1>1, <2>3 DEF OwnOnly
    <3>3. store[name[c]]["manifest.json"][1] = c => pc'[c] \in {"remove", "done", "dead"}
      BY <2>1, <2>3 DEF UploadInv, Begun
    <3>4. c \in alone /\ pc'[c] \in {"remove", "done"} /\ ~err'[c] => pc[c] \in {"remove", "done"} /\ ~err[c]
      BY <2>1, <2>3 DEF UploadInv
    <3> QED
      BY <1>2, <2>1, <2>2, <2>3, <3>1, <3>2, <3>3, <3>4 DEF UploadInv, Artifacts, Uploading
  <2>4. CASE c # b
    <3>1. pc'[c] = pc[c] /\ err'[c] = err[c] /\ \A d \in Builds \ {b} : pc'[d] = pc[d]
      BY <1>1, <2>4 DEF OwnOnly
    <3>2. \A d \in Builds : pc'[d] \in Uploading => pc[d] \in Uploading
      BY <3>1
    <3> QED
      BY <1>2, <2>1, <2>2, <3>1, <3>2 DEF UploadInv, Artifacts
  <2> QED
    BY <2>3, <2>4
<1> QED
  BY <1>1, <1>2, <1>4, <1>5 DEF SnapInv

(* What a write of object k by b can have done to the store, whether it    *)
(* succeeded, failed or was cut short.                                     *)
Writes(b, k) ==
  /\ store' \in [Names -> [Artifacts -> (Builds \cup {NoBuild}) \X (Contents \cup {"torn"})]]
  /\ \A n \in Names, j \in Artifacts :
       \/ store'[n][j] = store[n][j]
       \/ /\ n = name[b] /\ j = k /\ store'[n][j][1] = b
          /\ k = "rootfs.ext4" => store'[n][j][2] \in {"torn", image[b]}

(* A write of x by b.                                                      *)
LEMMA WritesEntry ==
  ASSUME SnapInv, NEW b \in Builds, NEW k \in Artifacts, NEW x \in Contents \cup {"torn"},
         store' = [store EXCEPT ![name[b]][k] = <<b, x>>],
         k = "rootfs.ext4" => x \in {"torn", image[b]}
  PROVE  Writes(b, k) /\ (name' = name /\ x # "torn" => Mine(b, k)')
<1>1. /\ name[b] \in Names
      /\ store \in [Names -> [Artifacts -> (Builds \cup {NoBuild}) \X (Contents \cup {"torn"})]]
  BY DEF SnapInv, HostTypes, StoreTypes
<1>2. <<b, x>> \in (Builds \cup {NoBuild}) \X (Contents \cup {"torn"})
  OBVIOUS
<1>3. store' \in [Names -> [Artifacts -> (Builds \cup {NoBuild}) \X (Contents \cup {"torn"})]]
  BY <1>1, <1>2
<1>4. store'[name[b]][k] = <<b, x>>
  BY <1>1
<1>5. ASSUME NEW n \in Names, NEW j \in Artifacts, ~(n = name[b] /\ j = k)
      PROVE  store'[n][j] = store[n][j]
  BY <1>1, <1>5
<1>6. Writes(b, k)
  BY <1>3, <1>4, <1>5 DEF Writes
<1>7. name' = name /\ x # "torn" => Mine(b, k)'
  BY <1>4 DEF Mine
<1> QED
  BY <1>6, <1>7

(* PutObject, and PutObject failing.                                       *)
LEMMA PutWrites ==
  ASSUME SnapInv, NEW b \in Builds, NEW k \in Artifacts
  PROVE  /\ PutObject(b, k) => Writes(b, k) /\ (name' = name => Mine(b, k)')
         /\ PutObjectFails(b, k) => Writes(b, k)
<1>1. Content(b, k) \in Contents /\ (k = "rootfs.ext4" => Content(b, k) = image[b])
  BY DEF SnapInv, HostTypes, Content, Contents
<1>2. Content(b, k) # "torn"
  BY <1>1 DEF Contents
<1>3. PutObject(b, k) => Writes(b, k) /\ (name' = name => Mine(b, k)')
  BY <1>1, <1>2, WritesEntry, Zenon DEF PutObject
<1>4. store' = [store EXCEPT ![name[b]][k] = <<b, "torn">>] => Writes(b, k)
  BY WritesEntry, Zenon
<1>5. UNCHANGED store => Writes(b, k)
  BY DEF Writes, SnapInv, StoreTypes
<1> QED
  BY <1>3, <1>4, <1>5 DEF PutObjectFails

(* Images in the store stay complete.                                      *)
LEMMA WriteComplete ==
  ASSUME SnapInv, NEW b \in Builds, NEW k \in Artifacts, HostKept(b), Writes(b, k),
         k = "rootfs.ext4" => pc[b] = "pushRootfs"
  PROVE  ImageComplete'
<1> SUFFICES ASSUME NEW n \in Names,
                    store'[n]["rootfs.ext4"][1] # NoBuild, store'[n]["rootfs.ext4"][2] # "torn"
             PROVE  \/ store'[n]["rootfs.ext4"][2] = "full"
                    \/ ignored'[store'[n]["rootfs.ext4"][1]] \cap {"tar", "image"} # {}
  BY Zenon DEF ImageComplete
<1>1. \A c \in Builds : ignored[c] \subseteq ignored'[c]
  BY DEF HostKept, OwnOnly
<1>2. CASE store'[n]["rootfs.ext4"] = store[n]["rootfs.ext4"]
  <2>1. store[n]["rootfs.ext4"][1] \in Builds
    BY <1>2 DEF SnapInv, StoreTypes, Artifacts
  <2>2. \/ store[n]["rootfs.ext4"][2] = "full"
        \/ ignored[store[n]["rootfs.ext4"][1]] \cap {"tar", "image"} # {}
    BY <1>2 DEF SnapInv, ImageComplete
  <2> QED
    BY <1>1, <1>2, <2>1, <2>2
<1>3. CASE store'[n]["rootfs.ext4"] # store[n]["rootfs.ext4"]
  <2>1. k = "rootfs.ext4" /\ store'[n]["rootfs.ext4"][1] = b /\ store'[n]["rootfs.ext4"][2] = image[b]
    BY <1>3 DEF Writes, Artifacts
  <2>2. image[b] = "full" \/ ignored[b] \cap {"tar", "image"} # {}
    BY <2>1 DEF SnapInv, HostInv
  <2> QED
    BY <1>1, <2>1, <2>2
<1> QED
  BY <1>2, <1>3

(* Builds of other names, and those of the name that b's upload makes no   *)
(* promise to.                                                             *)
LEMMA OtherUploads ==
  ASSUME SnapInv, NEW b \in Builds, NEW k \in Artifacts, HostKept(b), Writes(b, k),
         NEW c \in Builds \ {b},
         c \in alone' => c \in alone,
         name[c] = name[b] => c \notin alone' \/ pusher'[name[c]] # c,
         name[c] # name[b] => pusher'[name[c]] = pusher[name[c]]
  PROVE  UploadInv(c)'
<1>1. name' = name /\ pc'[c] = pc[c] /\ err'[c] = err[c] /\ \A d \in Builds \ {b} : pc'[d] = pc[d]
  BY Zenon DEF HostKept, OwnOnly
<1>2. UploadInv(c) /\ name[c] \in Names /\ b # c
  BY Zenon DEF SnapInv, HostTypes
<1>3. c \in alone' => pc'[c] \in Begun
  BY <1>1, <1>2, Zenon DEF UploadInv
<1>4. store'[name[c]]["manifest.json"][1] = c => store[name[c]]["manifest.json"][1] = c
  BY <1>2 DEF Writes, Artifacts
<1>5. store'[name[c]]["manifest.json"][1] = c => pc'[c] \in {"remove", "done", "dead"}
  BY <1>1, <1>2, <1>4 DEF UploadInv
<1>6. CASE name[c] = name[b]
  BY <1>1, <1>3, <1>5, <1>6 DEF UploadInv
<1>7. CASE name[c] # name[b]
  <2>1. \A j \in Artifacts : store'[name[c]][j] = store[name[c]][j]
    BY <1>2, <1>7 DEF Writes
  <2>2. \A j \in Artifacts : Mine(c, j)' <=> Mine(c, j)
    BY <1>1, <2>1, Zenon DEF Mine
  <2>3. c \in alone' /\ pusher'[name[c]] = c =>
          \A d \in Builds \ {c} : name[d] = name[c] => pc'[d] \notin Uploading
    BY <1>1, <1>2, <1>7, Zenon DEF UploadInv
  <2>4. SUFFICES ASSUME c \in alone', pusher'[name[c]] = c
                 PROVE  /\ pc[c] \in Uploading => Mine(c, "vmlinux")'
                        /\ pc[c] = "putManifest" => Mine(c, "rootfs.ext4")'
                        /\ pc[c] \in {"remove", "done"} /\ ~err[c] => \A j \in Artifacts : Mine(c, j)'
                        /\ store[name[c]]["manifest.json"][1] = c =>
                             Mine(c, "vmlinux")' /\ Mine(c, "rootfs.ext4")'
    BY <1>1, <1>3, <1>4, <1>5, <2>3 DEF UploadInv
  <2>5. c \in alone /\ pusher[name[c]] = c
    BY <1>7, <2>4
  <2> QED
    BY <1>2, <2>2, <2>5 DEF UploadInv, Artifacts
<1> QED
  BY <1>6, <1>7, Zenon

(* The kernel: b begins, and is alone only if nobody else is at it.        *)
LEMMA KernelKeeps ==
  ASSUME SnapInv, NEW b \in Builds, HostKept(b), Writes(b, "vmlinux"), BeginsUpload(b),
         pc[b] = "pushKernel", pc'[b] \in {"pushRootfs", "remove", "dead"},
         pc'[b] = "pushRootfs" => Mine(b, "vmlinux")',
         pc'[b] = "remove" => err'[b]
  PROVE  SnapInv'
<1>1. HostTypes' /\ DevInv' /\ OwnOnly(b) /\ name' = name /\ \A c \in Builds : HostInv(c)'
  BY HostsKept DEF HostKept, OwnOnly
<1>2. "vmlinux" \in Artifacts /\ "manifest.json" \in Artifacts
  BY Zenon DEF Artifacts
<1>3. name[b] \in Names /\ UploadInv(b) /\ StoreTypes
  BY DEF SnapInv, HostTypes
<1>4. /\ pusher' \in [Names -> Builds \cup {NoBuild}] /\ pusher'[name[b]] = b
      /\ \A n \in Names \ {name[b]} : pusher'[n] = pusher[n]
  BY <1>3 DEF StoreTypes, BeginsUpload
<1>5. /\ alone' \subseteq Builds /\ \A c \in Builds \ {b} : c \in alone' => c \in alone
      /\ b \in alone' => Others(b) = {} \/ b \in alone
  BY <1>3, Zenon DEF StoreTypes, BeginsUpload, Others
<1>6. StoreTypes'
  BY <1>4, <1>5, Zenon DEF StoreTypes, Writes
<1>7. ImageComplete'
  BY <1>2, WriteComplete, Zenon
<1>8. b \notin alone /\ store[name[b]]["manifest.json"][1] # b
  BY <1>3, Zenon DEF UploadInv, Begun, Uploading
<1>9. store'[name[b]]["manifest.json"][1] # b
  BY <1>2, <1>3, <1>8, Zenon DEF Writes
<1>10. b \in alone' => \A c \in Builds \ {b} : name[c] = name[b] => pc'[c] \notin Uploading
  BY <1>1, <1>5, <1>8, Zenon DEF Others, Uploading, OwnOnly
<1>11. UploadInv(b)'
  BY <1>1, <1>9, <1>10 DEF UploadInv, Begun, Uploading
<1>12. ASSUME NEW c \in Builds \ {b} PROVE UploadInv(c)'
  <2>1. name[c] = name[b] => pusher'[name[c]] # c
    BY <1>4, Zenon
  <2>2. name[c] # name[b] => pusher'[name[c]] = pusher[name[c]]
    BY <1>4, Zenon DEF SnapInv, HostTypes
  <2> QED
    BY <1>2, <1>5, <2>1, <2>2, OtherUploads, Zenon
<1> QED
  BY <1>1, <1>6, <1>7, <1>11, <1>12, Zenon DEF SnapInv

(* The image and the manifest: no other build of the name that is at it    *)
(* is alone.                                                               *)
LEMMA ArtifactKeeps ==
  ASSUME SnapInv, NEW b \in Builds, NEW k \in {"rootfs.ext4", "manifest.json"},
         HostKept(b), Writes(b, k), UNCHANGED <<pusher, alone>>,
         pc[b] = (IF k = "rootfs.ext4" THEN "pushRootfs" ELSE "putManifest"),
         pc'[b] \in {"putManifest", "remove", "dead"},
         pc'[b] = "putManifest" => k = "rootfs.ext4" /\ Mine(b, k)',
         pc'[b] = "remove" /\ ~err'[b] => k = "manifest.json" /\ Mine(b, k)'
  PROVE  SnapInv'
<1>1. HostTypes' /\ DevInv' /\ OwnOnly(b) /\ name' = name /\ \A c \in Builds : HostInv(c)'
  BY HostsKept DEF HostKept, OwnOnly
<1>2. k \in Artifacts /\ pc[b] \in Uploading
  BY Zenon DEF Artifacts, Uploading
<1>3. name[b] \in Names /\ UploadInv(b) /\ StoreTypes
  BY DEF SnapInv, HostTypes
<1>4. StoreTypes'
  BY <1>3 DEF StoreTypes, Writes
<1>5. ImageComplete'
  BY <1>2, WriteComplete
<1>6. ASSUME NEW c \in Builds \ {b} PROVE UploadInv(c)'
  <2>1. name[c] = name[b] => c \notin alone \/ pusher[name[c]] # c
    BY <1>2, Zenon DEF SnapInv, UploadInv
  <2> QED
    BY <1>2, <2>1, OtherUploads, Zenon
<1>7. UploadInv(b)'
  <2>1. store[name[b]]["manifest.json"][1] # b
    BY <1>2, <1>3 DEF UploadInv, Uploading
  <2>2. store'[name[b]]["manifest.json"][1] = b => k = "manifest.json"
    BY <1>3, <2>1, Zenon DEF Writes, Artifacts
  <2>3. \A j \in Artifacts \ {k} : Mine(b, j)' <=> Mine(b, j)
    BY <1>1, <1>3 DEF Writes, Mine
  <2>4. pc'[b] \in Begun
    BY DEF Begun, Uploading
  <2>5. ASSUME b \in alone, pusher[name[b]] = b
        PROVE  /\ Mine(b, "vmlinux")'
               /\ k = "manifest.json" => Mine(b, "rootfs.ext4")'
    BY <1>2, <1>3, <2>3, <2>5, Zenon DEF UploadInv, Artifacts
  <2>6. b \in alone /\ pusher[name[b]] = b =>
          \A c \in Builds \ {b} : name[c] = name[b] => pc'[c] \notin Uploading
    BY <1>1, <1>3 DEF UploadInv, OwnOnly
  <2>7. k = "manifest.json" => pc'[b] \in {"remove", "dead"}
    OBVIOUS
  <2> QED
    BY <1>1, <2>2, <2>4, <2>5, <2>6, <2>7, Zenon DEF UploadInv, Artifacts
<1> QED
  BY <1>1, <1>4, <1>5, <1>6, <1>7, Zenon DEF SnapInv

-----------------------------------------------------------------------------
(* Every step of a build keeps the invariant.                              *)
LEMMA SnapStep == SnapInv /\ [Next]_vars => SnapInv'
<1> SUFFICES ASSUME SnapInv, [Next]_vars PROVE SnapInv'
  OBVIOUS
<1>1. CASE UNCHANGED vars
  BY <1>1 DEF vars, hostVars, storeVars, SnapInv, HostTypes, StoreTypes, DevInv, ImageComplete,
     HostInv, UploadInv, Mine
<1>2. ASSUME NEW b \in Builds,
             Build(b) \/ Rootfs(b) \/ Image(b) \/ Upload(b) \/ RemoveWorkspace(b) \/ Crash(b)
      PROVE  SnapInv'
  <2>0. HostTypes /\ HostKept(b)
    BY <1>2, RootfsKeeps, ImageKeeps, EndKeeps DEF SnapInv
  <2>1. CASE Build(b) \/ Rootfs(b) \/ Image(b)
    <3>1. UNCHANGED storeVars
      BY <2>1, Zenon DEF Build, Rootfs, Image, debootstrap, MountDev, MountProc, Install,
         UmountProc, UmountDev,
         installGuestAgent, writeEnvironment, Format, MountImage, Populate, UmountImage,
         RemoveMountDir,
         Runs, Mount, Unmount
    <3>2. PICK l \in Steps \ Uploading : pc' = [pc EXCEPT ![b] = l]
      BY <2>1, Zenon DEF Build, Rootfs, Image, debootstrap, MountDev, MountProc, Install,
         UmountProc, UmountDev,
         installGuestAgent, writeEnvironment, Format, MountImage, Populate, UmountImage,
         RemoveMountDir,
         Runs, Mount, Unmount, Succeeds, Fails, Goto, Steps, Uploading
    <3>3. pc[b] \notin Begun
      BY <2>1, Zenon DEF Build, Rootfs, Image, debootstrap, MountDev, MountProc, Install,
         UmountProc, UmountDev,
         installGuestAgent, writeEnvironment, Format, MountImage, Populate, UmountImage,
         RemoveMountDir,
         Runs, Mount, Unmount, Begun, Uploading
    <3>4. pc'[b] \notin Uploading
      BY <2>0, <3>2 DEF HostTypes
    <3> QED
      BY <2>0, <3>1, <3>3, <3>4, NoUpload, Zenon
  <2>2. CASE RemoveWorkspace(b)
    <3>1. UNCHANGED storeVars /\ pc[b] = "remove" /\ pc'[b] = "done" /\ err'[b] = err[b]
      BY <2>0, <2>2, Zenon DEF RemoveWorkspace, Goto, HostTypes
    <3> QED
      BY <2>0, <3>1, NoUpload DEF Uploading
  <2>3. ASSUME NEW k \in Artifacts, NEW here \in Steps, NEW next \in Steps, Push(b, here, k, next)
        PROVE  /\ Writes(b, k) /\ pc[b] = here
               /\ (pc'[b] = next /\ Mine(b, k)') \/ (pc'[b] = "remove" /\ err'[b])
    <3>1. name' = name
      BY <2>3, Zenon DEF Push
    <3>2. CASE PutObject(b, k) /\ Succeeds(b, next)
      BY <2>0, <2>3, <3>1, <3>2, PutWrites, CommandShape, Zenon DEF Push
    <3>3. CASE PutObjectFails(b, k) /\ Fails(b, "remove")
      <4>1. "remove" \in Steps
        BY Zenon DEF Steps
      <4> QED
        BY <2>0, <2>3, <3>3, <4>1, PutWrites, CommandShape DEF Push
    <3> QED
      BY <2>3, <3>2, <3>3 DEF Push
  <2>4. CASE PushKernel(b)
    <3>1. Push(b, "pushKernel", "vmlinux", "pushRootfs") /\ BeginsUpload(b)
      BY <2>4, Zenon DEF PushKernel
    <3>2. /\ Writes(b, "vmlinux") /\ pc[b] = "pushKernel"
          /\ (pc'[b] = "pushRootfs" /\ Mine(b, "vmlinux")') \/ (pc'[b] = "remove" /\ err'[b])
      BY <2>3, <3>1, Zenon DEF Artifacts, Steps
    <3> QED
      BY <2>0, <3>1, <3>2, KernelKeeps
  <2>5. CASE PushRootfs(b)
    <3>1. Push(b, "pushRootfs", "rootfs.ext4", "putManifest") /\ UNCHANGED <<pusher, alone>>
      BY <2>5, Zenon DEF PushRootfs
    <3>2. /\ Writes(b, "rootfs.ext4") /\ pc[b] = "pushRootfs"
          /\ (pc'[b] = "putManifest" /\ Mine(b, "rootfs.ext4")') \/ (pc'[b] = "remove" /\ err'[b])
      BY <2>3, <3>1, Zenon DEF Artifacts, Steps
    <3> QED
      BY <2>0, <3>1, <3>2, ArtifactKeeps
  <2>6. CASE Put(b)
    <3>1. Push(b, "putManifest", "manifest.json", "remove") /\ UNCHANGED <<pusher, alone>>
      BY <2>6, Zenon DEF Put
    <3>2. /\ Writes(b, "manifest.json") /\ pc[b] = "putManifest"
          /\ (pc'[b] = "remove" /\ Mine(b, "manifest.json")') \/ (pc'[b] = "remove" /\ err'[b])
      BY <2>3, <3>1, Zenon DEF Artifacts, Steps
    <3> QED
      BY <2>0, <3>1, <3>2, ArtifactKeeps
  <2>7. CASE Crash(b)
    <3>1. pc'[b] = "dead"
      BY <2>0, <2>7 DEF Crash, Goto, HostTypes
    <3>2. CASE UNCHANGED storeVars
      BY <2>0, <3>1, <3>2, NoUpload DEF Uploading
    <3>3. CASE pc[b] = "pushKernel" /\ PutObjectFails(b, "vmlinux") /\ BeginsUpload(b)
      <4>1. Writes(b, "vmlinux")
        BY <3>3, PutWrites DEF Artifacts
      <4> QED
        BY <2>0, <3>1, <3>3, <4>1, KernelKeeps
    <3>4. CASE pc[b] = "pushRootfs" /\ PutObjectFails(b, "rootfs.ext4") /\ UNCHANGED <<pusher, alone>>
      <4>1. Writes(b, "rootfs.ext4")
        BY <3>4, PutWrites DEF Artifacts
      <4> QED
        BY <2>0, <3>1, <3>4, <4>1, ArtifactKeeps
    <3>5. CASE pc[b] = "putManifest" /\ PutObjectFails(b, "manifest.json") /\ UNCHANGED <<pusher, alone>>
      <4>1. Writes(b, "manifest.json")
        BY <3>5, PutWrites DEF Artifacts
      <4> QED
        BY <2>0, <3>1, <3>5, <4>1, ArtifactKeeps
    <3> QED
      BY <2>7, <3>2, <3>3, <3>4, <3>5 DEF Crash
  <2> QED
    BY <1>2, <2>1, <2>2, <2>4, <2>5, <2>6, <2>7 DEF Upload
<1> QED
  BY <1>1, <1>2 DEF Next

(* In every reachable state each build has mounted only what it has still  *)
(* to unmount, failed to unmount or was told had not been mounted; and a   *)
(* build that was alone with its name owns the objects it is past.         *)
THEOREM SnapshotInvariant == Spec => []SnapInv
<1>1. Init => SnapInv
  BY SnapInit
<1>2. SnapInv /\ [Next]_vars => SnapInv'
  BY SnapStep
<1> QED
  BY <1>1, <1>2, PTL DEF Spec

(* However many builds run, fail and die, one that returns leaves only     *)
(* mounts whose unmount failed or whose mount reported an error, and its   *)
(* workspace only with such a mount or a failed removal; the host loses    *)
(* device files only through such a mount of /dev.                         *)
THEOREM HostStaysIntact == Spec => []HostIntact
<1>1. SnapInv => HostIntact
  <2> SUFFICES ASSUME SnapInv PROVE HostIntact
    OBVIOUS
  <2>1. ASSUME NEW b \in Builds, pc[b] \in {"remove", "done"} PROVE mounts[b] \subseteq ignored[b]
    <3>1. HostInv(b) /\ mounts[b] \subseteq Points
      BY DEF SnapInv, HostTypes
    <3> QED
      BY <2>1, <3>1 DEF HostInv, Within, Points
  <2>2. ASSUME NEW b \in work, pc[b] = "done" PROVE ignored[b] \cap {"dev", "proc", "workspace"} # {}
    BY <2>2 DEF SnapInv, HostTypes, HostInv
  <2> QED
    BY <2>1, <2>2 DEF SnapInv, DevInv, HostIntact
<1> QED
  BY <1>1, SnapshotInvariant, PTL

(* Whatever is uploaded and whoever dies, an image in the store that is    *)
(* not torn was populated in full, or its build met a failure that it      *)
(* could not notice.                                                       *)
THEOREM ImagesAreComplete == Spec => []ImageComplete
<1>1. SnapInv => ImageComplete
  BY Zenon DEF SnapInv
<1> QED
  BY <1>1, SnapshotInvariant, PTL

(* A name stands for the build that returned its manifest, with every      *)
(* artifact, if no other build of the name uploaded at the same time and   *)
(* until one begins to; under the same condition a manifest is never there *)
(* before its artifacts.                                                   *)
THEOREM RegistrationsHold == Spec => []Registered
<1>1. SnapInv => Registered
  <2> SUFFICES ASSUME SnapInv, NEW b \in Builds, b \in alone, pusher[name[b]] = b
               PROVE  /\ pc[b] = "done" /\ ~err[b] => \A k \in Artifacts : Mine(b, k)
                      /\ store[name[b]]["manifest.json"][1] = b =>
                           \A k \in Artifacts \ {"manifest.json"} : Mine(b, k)
    BY DEF Registered, Mine
  <2> QED
    BY DEF SnapInv, UploadInv, Artifacts
<1> QED
  BY <1>1, SnapshotInvariant, PTL
=============================================================================
