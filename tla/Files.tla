------------------------------- MODULE Files --------------------------------
(***************************************************************************)
(* The file descriptors of the HAL: the lists of devices and file systems, *)
(* the pool alt_fd_list and the calls that change it.  A name is a         *)
(* sequence of path components, a set of flags is a set of names of bits,  *)
(* and the library is used by one thread: a call is one step.  The drivers *)
(* are external: a callback succeeds or fails as it likes.                 *)
(***************************************************************************)
EXTENDS Integers, FiniteSets, Sequences

CONSTANTS
  MaxFds,       \* ALT_MAX_FD
  Dev,          \* the alt_dev structures, of devices and of file systems
  DevNull,      \* alt_dev_null
  None,         \* the null pointer
  DevName,      \* their names; None for a structure without one
  Callbacks,    \* which callbacks each of them has
  IsDevice,     \* those that are registered as devices, not file systems
  Names,        \* what open() is called with
  OpenFlags,    \* the flags it is given
  FcntlFlags,   \* the flags F_SETFL is given
  Requests,     \* the requests of ioctl()
  Streams,      \* ALT_STDOUT, ALT_STDIN and ALT_STDERR, in this order
  Callers       \* bound: the descriptors the program makes calls with

Fds == 0 .. MaxFds - 1
Std == 0 .. 2                            \* standard in, out and error
Marks == {"EXCL", "DEV"}                 \* ALT_FD_FLAGS_MASK
Settable == {"APPEND", "NONBLOCK"}       \* ALT_FCNTL_FLAGS_MASK
Flags == Marks \cup Settable \cup {"WRONLY", "RDWR"}

ENODEV == 19
EMFILE == 24
EACCES == 13
EINVAL == 22
ENOTTY == 25
EBADFD == 81
ENOTSUP == 134
EIO == 5                                 \* whatever a driver answers

ASSUME FilesAssumption ==
  /\ MaxFds \in Nat /\ MaxFds > 3
  /\ None \notin Dev /\ DevNull \in IsDevice /\ IsDevice \subseteq Dev
  /\ OpenFlags \subseteq SUBSET Flags /\ FcntlFlags \subseteq SUBSET Flags
  /\ Callers \subseteq Fds
  /\ DevName \in [Dev -> Names \cup {None}]
  /\ Callbacks \in [Dev -> SUBSET {"open", "close", "read", "write",
                                   "lseek", "fstat", "ioctl"}]
  /\ Callbacks[DevNull] = {"write"}
  /\ Len(Streams) = 3 /\ \A i \in 1 .. 3 : Streams[i] \in Names

VARIABLES
  alt_dev_list, alt_fs_list,   \* sequences, the head of the list first
  dev, fd_flags,               \* of every entry of alt_fd_list
  alt_max_fd,
  stage,                       \* 1 .. 3 in alt_io_redirect(), 0 before, 4 after
  held,                        \* the descriptors the program has
  answer                       \* of the last call: [call, value, errno]

table == <<dev, fd_flags, alt_max_fd>>
lists == <<alt_dev_list, alt_fs_list>>
filesVars == <<alt_dev_list, alt_fs_list, dev, fd_flags, alt_max_fd, stage,
               held, answer>>

FilesInit ==
  /\ alt_dev_list = <<DevNull>> /\ alt_fs_list = << >>
  /\ dev = [i \in Fds |-> IF i \in Std THEN DevNull ELSE None]
  /\ fd_flags = [i \in Fds |-> {}]
  /\ alt_max_fd = -1
  /\ stage = 0 /\ held = Std
  /\ answer = [call |-> "none", value |-> 0, errno |-> 0]

Answer(call, value) ==
  answer' = [call |-> call, value |-> IF value < 0 THEN -1 ELSE value,
             errno |-> IF value < 0 THEN -value ELSE 0]

Listed == {alt_dev_list[i] : i \in DOMAIN alt_dev_list}
            \cup {alt_fs_list[i] : i \in DOMAIN alt_fs_list}

(* alt_dev_reg() and alt_fs_reg(), called by the initialisation functions. *)
Insert(list, d) == <<d>> \o list         \* alt_llist_insert()

RegisterDevice(d) ==
  /\ stage = 0 /\ d \in IsDevice \ Listed
  /\ IF DevName[d] = None
     THEN UNCHANGED alt_dev_list /\ Answer("alt_dev_llist_insert", -EINVAL)
     ELSE /\ alt_dev_list' = Insert(alt_dev_list, d)
          /\ Answer("alt_dev_llist_insert", 0)
  /\ UNCHANGED <<alt_fs_list, table, stage, held>>

RegisterFileSystem(d) ==
  /\ stage = 0 /\ d \in Dev \ (IsDevice \cup Listed)
  /\ IF DevName[d] = None
     THEN UNCHANGED alt_fs_list /\ Answer("alt_fs_reg", -ENODEV)
     ELSE /\ alt_fs_list' = Insert(alt_fs_list, d)
          /\ Answer("alt_fs_reg", 0)
  /\ UNCHANGED <<alt_dev_list, table, stage, held>>

(* The first entry of a list that is in a set: a set of at most one.       *)
Least(S) == {i \in S : \A j \in S : i <= j}

First(list, wanted) ==
  {list[i] : i \in Least({j \in DOMAIN list : list[j] \in wanted})}

alt_find_dev(n) == First(alt_dev_list, {d \in Dev : DevName[d] = n})

(* A file system is mounted at a prefix of the names of its files. *)
alt_find_file(n) ==
  First(alt_fs_list,
        {d \in Dev : /\ DevName[d] # None /\ Len(DevName[d]) <= Len(n)
                     /\ SubSeq(n, 1, Len(DevName[d])) = DevName[d]})

Free == {i \in Fds : dev[i] = None}
alt_get_fd == Least(Free)                \* the first free entry
Larger(a, b) == IF a > b THEN a ELSE b

(* Mutant: the flags stay.                                                 *)
ReleasedFlagged(devs, flags, i) ==
  IF i > 2 THEN <<[devs EXCEPT ![i] = None], flags>> ELSE <<devs, flags>>

Released(devs, flags, i) ==              \* alt_release_fd(i)
  IF i > 2 THEN <<[devs EXCEPT ![i] = None], [flags EXCEPT ![i] = {}]>>
           ELSE <<devs, flags>>

(* alt_file_locked(): a descriptor other than i, up to the highest that    *)
(* was ever allocated, has the device for itself.                          *)
alt_file_locked(devs, flags, max, i) ==
  \E j \in Fds : /\ j <= max /\ j # i
                 /\ devs[j] = devs[i] /\ "EXCL" \in flags[j]

(* What the driver's open() may answer. *)
DriverOpen(d) == {0} \cup (IF "open" \in Callbacks[d] THEN {-EIO} ELSE {})

Opened(devs, flags, max, value) ==
  [dev |-> devs, fd_flags |-> flags, max |-> max, value |-> value]

(* The pool after open(), and what it returns, when entry i is taken for d.*)
Allocated(i, d, device, f) ==
  LET devs == [dev EXCEPT ![i] = d]
      flags == [fd_flags EXCEPT ![i] =
                  (f \ Marks) \cup (IF device THEN {"DEV"} ELSE {})]
      max == Larger(i, alt_max_fd)
      undone == Released(devs, flags, i)
  IN  IF device /\ alt_file_locked(devs, flags, max, i)
      THEN {Opened(undone[1], undone[2], max, -EACCES)}
      ELSE {IF status < 0 THEN Opened(undone[1], undone[2], max, status)
            ELSE Opened(devs, flags, max, i) : status \in DriverOpen(d)}

OpenResults(n, f) ==
  LET device == alt_find_dev(n) # {}
      found == IF device THEN alt_find_dev(n) ELSE alt_find_file(n)
  IN  CASE found = {} -> {Opened(dev, fd_flags, alt_max_fd, -ENODEV)}
        [] found # {} /\ Free = {} ->
             {Opened(dev, fd_flags, alt_max_fd, -EMFILE)}
        [] OTHER -> UNION {Allocated(i, d, device, f) :
                             i \in alt_get_fd, d \in found}

(* alt_io_redirect(): three times alt_open_fd().  A channel whose device   *)
(* cannot be opened stays on /dev/null.                                    *)
Channel == <<1, 0, 2>>

RedirectBegins ==
  /\ stage = 0 /\ stage' = 1
  /\ UNCHANGED <<lists, table, held, answer>>

Copied(r, channel) ==
  Released([r.dev EXCEPT ![channel] = r.dev[r.value]],
           [r.fd_flags EXCEPT ![channel] = r.fd_flags[r.value]], r.value)

alt_open_fd ==
  /\ stage \in 1 .. 3
  /\ \E r \in OpenResults(Streams[stage],
                          IF Channel[stage] = 0 THEN {} ELSE {"WRONLY"}) :
       /\ IF r.value >= 0
          THEN /\ dev' = Copied(r, Channel[stage])[1]
               /\ fd_flags' = Copied(r, Channel[stage])[2]
          ELSE dev' = r.dev /\ fd_flags' = r.fd_flags
       /\ alt_max_fd' = r.max
       /\ Answer("open", r.value)
  /\ stage' = stage + 1
  /\ UNCHANGED <<lists, held>>

(* The calls of the program.  It makes them with descriptors it has or     *)
(* with -1, the descriptor of an open() that failed.                       *)
Open(n, f) ==
  /\ stage = 4
  /\ \E r \in OpenResults(n, f) :
       /\ dev' = r.dev /\ fd_flags' = r.fd_flags /\ alt_max_fd' = r.max
       /\ held' = IF r.value >= 0 THEN held \cup {r.value} ELSE held
       /\ Answer("open", r.value)
  /\ UNCHANGED <<lists, stage>>

Usable == (held \cap Callers) \cup {-1}

(* The answers of a callback that a device may not have. *)
Driver(d, callback, absent) ==
  IF callback \in Callbacks[d] THEN {0, -EIO} ELSE {absent}

Close(fd) ==
  /\ stage = 4 /\ fd \in Usable \ {-1}
  /\ \E rval \in Driver(dev[fd], "close", 0) : Answer("close", rval)
  /\ dev' = Released(dev, fd_flags, fd)[1]
  /\ fd_flags' = Released(dev, fd_flags, fd)[2]
  /\ held' = (held \ {fd}) \cup Std
  /\ UNCHANGED <<lists, alt_max_fd, stage>>

(* Mutant: other descriptors do not matter.                                *)
LockAlways(fd) ==
  /\ fd_flags' = [fd_flags EXCEPT ![fd] = @ \cup {"EXCL"}]
  /\ answer' = [call |-> "ioctl", value |-> 0, errno |-> 0]

alt_fd_lock(fd) ==
  LET others == {i \in Fds : i < alt_max_fd /\ i # fd /\ dev[i] = dev[fd]}
  IN  IF others # {}
      THEN UNCHANGED fd_flags /\ answer' = [call |-> "ioctl",
                                            value |-> -EACCES, errno |-> EACCES]
      ELSE /\ fd_flags' = [fd_flags EXCEPT ![fd] = @ \cup {"EXCL"}]
           /\ answer' = [call |-> "ioctl", value |-> 0, errno |-> 0]

alt_fd_unlock(fd) ==
  /\ fd_flags' = [fd_flags EXCEPT ![fd] = @ \ {"EXCL"}]
  /\ answer' = [call |-> "ioctl", value |-> 0, errno |-> 0]

(* ioctl() returns the negative error number itself. *)
Ioctl(fd, req) ==
  /\ stage = 4 /\ fd \in Usable \ {-1}
  /\ \/ req = "TIOCEXCL" /\ "DEV" \in fd_flags[fd] /\ alt_fd_lock(fd)
     \/ req = "TIOCNXCL" /\ "DEV" \in fd_flags[fd] /\ alt_fd_unlock(fd)
     \/ /\ req \notin {"TIOCEXCL", "TIOCNXCL"} \/ "DEV" \notin fd_flags[fd]
        /\ \E rc \in Driver(dev[fd], "ioctl", -ENOTTY) :
             answer' = [call |-> "ioctl", value |-> rc,
                        errno |-> IF rc < 0 THEN -rc ELSE 0]
        /\ UNCHANGED fd_flags
  /\ UNCHANGED <<lists, dev, alt_max_fd, stage, held>>

(* Mutant: every flag is set.                                              *)
SetAllFlags(fd, f) ==
  /\ stage = 4 /\ fd \in Usable \ {-1}
  /\ fd_flags' = [fd_flags EXCEPT ![fd] = f \cap Settable]
  /\ Answer("fcntl", 0)
  /\ UNCHANGED <<lists, dev, alt_max_fd, stage, held>>

SetFlags(fd, f) ==                       \* fcntl(fd, F_SETFL, f)
  /\ stage = 4 /\ fd \in Usable \ {-1}
  /\ fd_flags' = [fd_flags EXCEPT ![fd] = (@ \ Settable) \cup (f \cap Settable)]
  /\ Answer("fcntl", 0)
  /\ UNCHANGED <<lists, dev, alt_max_fd, stage, held>>

(* The calls that leave the pool alone. *)
Read(fd) ==
  /\ fd \in held
  /\ \E rval \in (IF "WRONLY" \in fd_flags[fd] THEN {-EACCES}
                  ELSE Driver(dev[fd], "read", -EACCES)) : Answer("read", rval)

Write(fd) ==
  /\ fd \in held
  /\ \E rval \in (IF {"WRONLY", "RDWR"} \cap fd_flags[fd] = {} THEN {-EACCES}
                  ELSE Driver(dev[fd], "write", -EACCES)) :
       Answer("write", rval)

Seek(fd) ==
  /\ fd \in held
  /\ \E rc \in Driver(dev[fd], "lseek", -ENOTSUP) : Answer("lseek", rc)

(* fstat() hands on what the driver answers and leaves errno to it. *)
Stat(fd) ==
  /\ fd \in held
  /\ \E rc \in Driver(dev[fd], "fstat", 0) :
       answer' = [call |-> "fstat", value |-> rc, errno |-> 0]

(* 1 for a terminal: a driver's fstat() decides if there is one. *)
IsATty(fd) ==
  /\ fd \in held
  /\ \E tty \in (IF "fstat" \in Callbacks[dev[fd]] THEN {0, 1} ELSE {1}) :
       Answer("isatty", tty)

BadDescriptor ==
  \/ \E call \in {"close", "fcntl", "read", "write", "lseek", "fstat"} :
       Answer(call, -EBADFD)
  \/ answer' = [call |-> "ioctl", value |-> -EBADFD, errno |-> EBADFD]
  \/ answer' = [call |-> "isatty", value |-> 0, errno |-> EBADFD]

Enquire ==
  /\ stage = 4
  /\ \/ \E fd \in Callers : \/ Read(fd) \/ Write(fd) \/ Seek(fd)
                            \/ Stat(fd) \/ IsATty(fd)
     \/ BadDescriptor
  /\ UNCHANGED <<lists, table, stage, held>>

FilesNext ==
  \/ \E d \in Dev : RegisterDevice(d) \/ RegisterFileSystem(d)
  \/ RedirectBegins \/ alt_open_fd
  \/ \E n \in Names, f \in OpenFlags : Open(n, f)
  \/ \E fd \in Callers : \/ Close(fd)
                         \/ \E req \in Requests : Ioctl(fd, req)
                         \/ \E f \in FcntlFlags : SetFlags(fd, f)
  \/ Enquire

FilesSpec == FilesInit /\ [][FilesNext]_filesVars
-----------------------------------------------------------------------------
FilesTypeOK ==
  /\ dev \in [Fds -> Dev \cup {None}] /\ fd_flags \in [Fds -> SUBSET Flags]
  /\ alt_max_fd \in -1 .. MaxFds - 1
  /\ stage \in 0 .. 4
  /\ held \subseteq Fds

(* The pool holds what the program holds: whatever an open() that failed   *)
(* half-way, a redirection or a close() went through, an entry above the   *)
(* standard streams is taken exactly if the program has its number, and a  *)
(* free entry keeps no flag for its next user.                             *)
NothingLeaks ==
  \A i \in Fds :
    /\ i \in held <=> dev[i] # None
    /\ dev[i] = None => fd_flags[i] = {}

(* Two descriptors never have the same device for themselves, and only     *)
(* descriptors of devices that alt_file_locked() looks at have a lock.     *)
OneHolder ==
  \A i, j \in Fds :
    "EXCL" \in fd_flags[i] =>
      /\ i <= alt_max_fd
      /\ i # j /\ dev[i] = dev[j] => "EXCL" \notin fd_flags[j]

(* While a descriptor has a device for itself, nobody else gets one for    *)
(* this device, and only the holder's own TIOCNXCL or close() ends this    *)
(* (alt_fd_lock.c: further calls to open() fail until then).               *)
LockKept ==
  [][\A i \in Fds : "EXCL" \in fd_flags[i] =>
       /\ \A j \in Fds : dev'[j] = dev[i] => dev[j] = dev[i]
       /\ "EXCL" \notin fd_flags'[i] =>
            \/ Close(i)
            \/ Ioctl(i, "TIOCNXCL")]_filesVars

(* alt_fd_lock.c: the lock is granted if there are no other open file      *)
(* descriptors which reference the same device.                            *)
SoleUser ==
  \A i, j \in Fds :
    "EXCL" \in fd_flags[i] /\ i # j => dev[i] # dev[j]

(* alt_fd_lock.c: the lock is released by calling close() for the          *)
(* descriptor.                                                             *)
CloseReleases ==
  [][\A i \in Fds : Close(i) => "EXCL" \notin fd_flags'[i]]_filesVars

(* alt_ioctl.c: ioctl() is identical to the standard posix function, which *)
(* returns -1 and sets errno if it fails.                                  *)
IoctlLikePosix == answer.call = "ioctl" => answer.value >= -1
=============================================================================
