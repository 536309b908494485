--------------------------- MODULE SnapshotBuild ---------------------------
(***************************************************************************)
(* Building a snapshot image and registering it                            *)
(* (internal/platform/snapshot/builder.go and registry.go).  An element of *)
(* Builds is one call of Build, with an output file of its own.  A step is *)
(* one external command, one removal of a directory tree or one object     *)
(* written to the store; builds interleave there, fail there and may die   *)
(* there.                                                                  *)
(*                                                                         *)
(* A root file system is bootstrapped in a workspace, with the host's /dev *)
(* and a proc mounted into it while packages are installed; it is copied   *)
(* into a loop-mounted image; kernel, image and manifest are uploaded      *)
(* under the snapshot's name.  The unmounts are deferred functions whose   *)
(* errors nobody sees, and so are the removals that follow them.           *)
(***************************************************************************)
EXTENDS Naturals, FiniteSets

CONSTANTS
  Builds, NoBuild,
  Names,        \* snapshot names
  MaxFaults     \* bound on failing commands and writes, and on crashes

ASSUME BuildsAssumption ==
  NoBuild \notin Builds /\ MaxFaults \in Nat

VARIABLES
  pc, name,    \* a build: its step and the name of its snapshot
  err,         \* the error it will return
  work,        \* builds whose workspace exists
  mounts,      \* mounts[b]: what is mounted in its directories
  image,       \* image[b]: what its image file contains
  store,       \* store[n][k]: the build and the content of an object
  hostDev,     \* the host's device files are all there
  ignored,     \* history: what Build took for undone, done or never done, wrongly
  pusher,      \* history: the build that began to upload to a name last
  alone,       \* history: builds that uploaded with no other one meanwhile
  faults

hostVars == <<work, mounts, image, hostDev>>
storeVars == <<store, pusher, alone>>
vars == <<pc, name, err, hostVars, storeVars, ignored, faults>>

Artifacts == {"vmlinux", "rootfs.ext4", "manifest.json"}
Absent == <<NoBuild, "none">>

Fault == faults < MaxFaults /\ faults' = faults + 1
NoFault == UNCHANGED faults

Init ==
  /\ pc = [b \in Builds |-> "idle"]
  /\ name \in [Builds -> Names]
  /\ err = [b \in Builds |-> FALSE]
  /\ work = {} /\ hostDev = TRUE
  /\ mounts = [b \in Builds |-> {}]
  /\ image = [b \in Builds |-> "none"]
  /\ store = [n \in Names |-> [k \in Artifacts |-> Absent]]
  /\ ignored = [b \in Builds |-> {}]
  /\ pusher = [n \in Names |-> NoBuild]
  /\ alone = {}
  /\ faults = 0

-----------------------------------------------------------------------------
Goto(b, l) == pc' = [pc EXCEPT ![b] = l]
Fails(b, l) == Goto(b, l) /\ err' = [err EXCEPT ![b] = TRUE] /\ Fault
Succeeds(b, l) == Goto(b, l) /\ UNCHANGED err /\ NoFault
Ignores(b, failure) == ignored' = [ignored EXCEPT ![b] = @ \cup {failure}] /\ Fault

(* A command that changes nothing the properties look at.                  *)
Runs(b, here, next, onError) ==
  /\ pc[b] = here
  /\ Succeeds(b, next) \/ Fails(b, onError)
  /\ UNCHANGED <<name, hostVars, storeVars, ignored>>

Mounted(b, what) == mounts' = [mounts EXCEPT ![b] = @ \cup {what}]
Unmounted(b, what) == mounts' = [mounts EXCEPT ![b] = @ \ {what}]

(* Build checks its arguments and makes the workspace.                     *)
Build(b) ==
  /\ pc[b] = "idle" /\ work' = work \cup {b} /\ Succeeds(b, "bootstrap")
  /\ UNCHANGED <<name, mounts, image, hostDev, storeVars, ignored>>

debootstrap(b) == Runs(b, "bootstrap", "mountDev", "remove")

-----------------------------------------------------------------------------
(* withChrootMounts.  A mount command killed just after its system call    *)
(* (its context is cancelled) reports an error with the mount in place;    *)
(* the unmount is deferred only after a success.                           *)
Mount(b, here, what, next, onError) ==
  /\ pc[b] = here
  /\ \/ Mounted(b, what) /\ Succeeds(b, next) /\ UNCHANGED ignored
     \/ UNCHANGED mounts /\ Fails(b, onError) /\ UNCHANGED ignored
     \/ Mounted(b, what) /\ Fails(b, onError) /\ Ignores(b, what)
  /\ UNCHANGED <<name, work, image, hostDev, storeVars>>

(* Faulty variant of MountProc: nothing undoes the mount of /dev.          *)
MountProcReturns(b) == Mount(b, "mountProc", "proc", "install", "remove")

MountDev(b) == Mount(b, "mountDev", "dev", "mountProc", "remove")
MountProc(b) == Mount(b, "mountProc", "proc", "install", "umountDev")

(* apt-get, the language runtime, pip and npm.                             *)
Install(b) == Runs(b, "install", "umountProc", "umountProc")

(* A deferred unmount: its error is dropped.                               *)
Unmount(b, here, what, next) ==
  /\ pc[b] = here /\ Goto(b, next)
  /\ \/ Unmounted(b, what) /\ UNCHANGED ignored /\ NoFault
     \/ UNCHANGED mounts /\ Ignores(b, what)
  /\ UNCHANGED <<name, err, work, image, hostDev, storeVars>>

UmountProc(b) == Unmount(b, "umountProc", "proc", "umountDev")
UmountDev(b) == Unmount(b, "umountDev", "dev", IF err[b] THEN "remove" ELSE "agent")

(* installGuestAgent and writeEnvironment.                                 *)
installGuestAgent(b) == Runs(b, "agent", "environment", "remove")
writeEnvironment(b) == Runs(b, "environment", "format", "remove")

-----------------------------------------------------------------------------
(* createFilesystemImage.                                                  *)
Format(b) ==
  /\ pc[b] = "format"
  /\ \/ image' = [image EXCEPT ![b] = "blank"] /\ Succeeds(b, "mountImage")
     \/ UNCHANGED image /\ Fails(b, "remove")
  /\ UNCHANGED <<name, work, mounts, hostDev, storeVars, ignored>>

MountImage(b) == Mount(b, "mountImage", "image", "populate", "removeMountDir")

(* Faulty variant of Populate: its error is dropped.                       *)
PopulateErrorDropped(b) ==
  /\ pc[b] = "populate" /\ Goto(b, "umountImage")
  /\ \/ image' = [image EXCEPT ![b] = "full"] /\ NoFault
     \/ image' = [image EXCEPT ![b] = "partial"] /\ Fault
  /\ UNCHANGED <<name, err, work, mounts, hostDev, storeVars, ignored>>

(* Two tar processes in a pipeline of sh, whose status is that of the      *)
(* second one: when the first one fails the image is incomplete and Build  *)
(* does not know.                                                          *)
Populate(b) ==
  /\ pc[b] = "populate"
  /\ \/ image' = [image EXCEPT ![b] = "full"] /\ Succeeds(b, "umountImage") /\ UNCHANGED ignored
     \/ image' = [image EXCEPT ![b] = "partial"] /\ Fails(b, "umountImage") /\ UNCHANGED ignored
     \/ /\ image' = [image EXCEPT ![b] = "partial"] /\ Ignores(b, "tar")
        /\ Goto(b, "umountImage") /\ UNCHANGED err
  /\ UNCHANGED <<name, work, mounts, hostDev, storeVars>>

UmountImage(b) == Unmount(b, "umountImage", "image", "removeMountDir")

(* RemoveAll of the mount point empties an image that is still mounted, in *)
(* part when it fails.                                                     *)
RemoveMountDir(b) ==
  /\ pc[b] = "removeMountDir" /\ Goto(b, IF err[b] THEN "remove" ELSE "pushKernel")
  /\ \/ "image" \notin mounts[b] /\ UNCHANGED image
     \/ "image" \in mounts[b] /\ \E left \in {"blank", "partial"} : image' = [image EXCEPT ![b] = left]
  /\ UNCHANGED <<name, err, work, mounts, hostDev, storeVars, ignored, faults>>

-----------------------------------------------------------------------------
(* The registry.  Objects are overwritten in place.  A write that fails    *)
(* has changed nothing, or has left a LocalStore with what was copied so   *)
(* far, or an S3Store with the whole object, the answer being lost.        *)
Content(b, k) == IF k = "rootfs.ext4" THEN image[b] ELSE "full"

PutObject(b, k) ==
  store' = [store EXCEPT ![name[b]][k] = <<b, Content(b, k)>>]

PutObjectFails(b, k) ==
  \/ UNCHANGED store
  \/ store' = [store EXCEPT ![name[b]][k] = <<b, "torn">>]
  \/ PutObject(b, k)

Push(b, here, k, next) ==
  /\ pc[b] = here
  /\ \/ PutObject(b, k) /\ Succeeds(b, next)
     \/ PutObjectFails(b, k) /\ Fails(b, "remove")
  /\ UNCHANGED <<name, hostVars, ignored>>

(* The history of uploads: b begins while the builds of Others are at it.  *)
Others(b) ==
  {c \in Builds \ {b} : name[c] = name[b] /\ pc[c] \in {"pushRootfs", "putManifest"}}

BeginsUpload(b) ==
  /\ pusher' = [pusher EXCEPT ![name[b]] = b]
  /\ alone' = IF Others(b) = {} THEN alone \cup {b} ELSE alone \ Others(b)

PushKernel(b) == Push(b, "pushKernel", "vmlinux", "pushRootfs") /\ BeginsUpload(b)

(* Faulty variant of PushRootfs: its error is dropped.                     *)
PushRootfsErrorDropped(b) ==
  /\ pc[b] = "pushRootfs"
  /\ \/ PutObject(b, "rootfs.ext4") /\ Succeeds(b, "putManifest")
     \/ PutObjectFails(b, "rootfs.ext4") /\ Goto(b, "putManifest") /\ UNCHANGED err /\ Fault
  /\ UNCHANGED <<name, hostVars, ignored, pusher, alone>>

PushRootfs(b) ==
  Push(b, "pushRootfs", "rootfs.ext4", "putManifest") /\ UNCHANGED <<pusher, alone>>

Put(b) == Push(b, "putManifest", "manifest.json", "remove") /\ UNCHANGED <<pusher, alone>>

-----------------------------------------------------------------------------
(* RemoveAll of the workspace goes into what is still mounted there: it    *)
(* deletes device files of the host, and leaves what it cannot delete.  It *)
(* may fail for another reason, anywhere on its way; its error is dropped. *)
RemoveWorkspace(b) ==
  /\ pc[b] = "remove" /\ Goto(b, "done")
  /\ \/ /\ mounts[b] \cap {"dev", "proc"} = {} /\ work' = work \ {b}
        /\ UNCHANGED <<hostDev, ignored>> /\ NoFault
     \/ /\ mounts[b] \cap {"dev", "proc"} # {} /\ UNCHANGED work
        /\ hostDev' = (hostDev /\ "dev" \notin mounts[b])
        /\ UNCHANGED ignored /\ NoFault
     \/ UNCHANGED <<work, hostDev>> /\ Ignores(b, "workspace")
  /\ UNCHANGED <<name, err, mounts, image, storeVars>>

(* The builder's process dies, perhaps in the middle of an upload.         *)
Crash(b) ==
  /\ pc[b] \notin {"idle", "done", "dead"} /\ Goto(b, "dead") /\ Fault
  /\ \/ UNCHANGED storeVars
     \/ pc[b] = "pushKernel" /\ PutObjectFails(b, "vmlinux") /\ BeginsUpload(b)
     \/ pc[b] = "pushRootfs" /\ PutObjectFails(b, "rootfs.ext4") /\ UNCHANGED <<pusher, alone>>
     \/ pc[b] = "putManifest" /\ PutObjectFails(b, "manifest.json") /\ UNCHANGED <<pusher, alone>>
  /\ UNCHANGED <<name, err, hostVars, ignored>>

-----------------------------------------------------------------------------
Rootfs(b) ==
  \/ debootstrap(b) \/ MountDev(b) \/ MountProc(b) \/ Install(b)
  \/ UmountProc(b) \/ UmountDev(b) \/ installGuestAgent(b) \/ writeEnvironment(b)

Image(b) == Format(b) \/ MountImage(b) \/ Populate(b) \/ UmountImage(b) \/ RemoveMountDir(b)

Upload(b) == PushKernel(b) \/ PushRootfs(b) \/ Put(b)

Next ==
  \E b \in Builds :
    Build(b) \/ Rootfs(b) \/ Image(b) \/ Upload(b) \/ RemoveWorkspace(b) \/ Crash(b)

Spec == Init /\ [][Next]_vars

-----------------------------------------------------------------------------
(* A build that returns, with a manifest or with an error from any step,   *)
(* leaves no mount behind but one whose unmount failed or whose mount took *)
(* effect although its command failed; it leaves its workspace only with   *)
(* such a mount in it or when the removal itself failed; and device files  *)
(* of the host are lost only through such a mount of /dev (the order of    *)
(* the deferred functions of Build, withChrootMounts and                   *)
(* createFilesystemImage, on every error path).                            *)
HostIntact ==
  /\ \A b \in Builds : pc[b] \in {"remove", "done"} => mounts[b] \subseteq ignored[b]
  /\ \A b \in work : pc[b] = "done" => ignored[b] \cap {"dev", "proc", "workspace"} # {}
  /\ hostDev \/ \E b \in Builds : "dev" \in ignored[b]

(* An image is uploaded only when it was populated in full, whatever step  *)
(* failed before, unless Build could not notice the failure: an archiver   *)
(* that failed on the other side of a pipe, or an image that was still     *)
(* mounted when its mount point was removed.                               *)
ImageComplete ==
  \A n \in Names :
    LET b == store[n]["rootfs.ext4"][1]
        content == store[n]["rootfs.ext4"][2] IN
    b # NoBuild /\ content # "torn" =>
      content = "full" \/ ignored[b] \cap {"tar", "image"} # {}

(* When a build has returned a manifest, the name stands for exactly that  *)
(* build, kernel, image and manifest, until another build of the name      *)
(* begins to upload, if none uploaded at the same time.  A build that      *)
(* failed or died has never replaced the manifest before its artifacts.    *)
Registered ==
  \A b \in Builds :
    LET objects == store[name[b]] IN
    /\ pc[b] = "done" /\ ~err[b] /\ b \in alone /\ pusher[name[b]] = b =>
         \A k \in Artifacts : objects[k][1] = b /\ objects[k][2] # "torn"
    /\ objects["manifest.json"][1] = b /\ b \in alone /\ pusher[name[b]] = b =>
         \A k \in Artifacts \ {"manifest.json"} : objects[k][1] = b /\ objects[k][2] # "torn"
=============================================================================
