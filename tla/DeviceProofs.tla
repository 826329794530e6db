---------------------------- MODULE DeviceProofs ----------------------------
(***************************************************************************)
(* For every value of the constants: the pool of file descriptors (nothing *)
(* leaks, and a device never has two exclusive users), the polled UART (a  *)
(* line in each direction), the alarms (their list, and when they are      *)
(* called), what measures time (time of day, delays, timestamps and the    *)
(* system clock), and the log (messages stay whole).                       *)
(***************************************************************************)
EXTENDS Files, JtagSmall, Alarms, Clocks, Log, SequenceTheorems,
        FiniteSetTheorems, TLAPS
-----------------------------------------------------------------------------
(* The file descriptors.                                                   *)

(* The lists hold structures of their kind.                                *)
ListsOK ==
  /\ alt_dev_list \in Seq(IsDevice) /\ alt_fs_list \in Seq(Dev \ IsDevice)

(* Until main() runs the program has the standard streams only; these are  *)
(* never free, and the high-water mark is above every other descriptor.    *)
PoolOK ==
  /\ Std \subseteq held
  /\ stage < 4 => \A i \in Fds : "EXCL" \notin fd_flags[i]
  /\ \A i \in Fds : i > 2 /\ dev[i] # None => i <= alt_max_fd
  /\ \A i \in Fds : "DEV" \in fd_flags[i] => i <= alt_max_fd /\ alt_max_fd > 2

(* A lock is one of a device; the descriptors that share the device come   *)
(* after the holder: only the highest can have been overlooked.            *)
LocksOK ==
  \A i \in Fds : "EXCL" \in fd_flags[i] =>
    /\ "DEV" \in fd_flags[i] /\ dev[i] \in IsDevice
    /\ \A j \in Fds : i # j /\ dev[i] = dev[j] => j > i

(* Only descriptors of devices, not of file systems, bear the mark.        *)
DevicesOK == \A i \in Fds : "DEV" \in fd_flags[i] => dev[i] \in IsDevice

FilesInv ==
  /\ FilesTypeOK /\ ListsOK /\ PoolOK /\ LocksOK /\ NothingLeaks /\ DevicesOK

(* A search in a list returns entries of the wanted set.                   *)
LEMMA FirstIn ==
  ASSUME NEW T, NEW list \in Seq(T), NEW wanted
  PROVE  First(list, wanted) \subseteq T \cap wanted
  BY DEF First, Least

(* What open() leaves behind: the pool as it was, or with one free entry   *)
(* taken for a device that nobody has for himself, or for a file system.   *)
Taken(i, d, f) ==
  /\ i \in Fds /\ dev[i] = None /\ d \in Dev
  /\ f \in SUBSET Flags /\ "EXCL" \notin f
  /\ "DEV" \in f =>
       d \in IsDevice /\ \A j \in Fds : "EXCL" \in fd_flags[j] => dev[j] # d
  /\ "DEV" \notin f => d \notin IsDevice

LeavesPool(r) ==
  /\ r.max \in alt_max_fd .. MaxFds - 1
  /\ \/ r.value \in Int /\ r.value < 0 /\ r.dev = dev /\ r.fd_flags = fd_flags
     \/ /\ r.value \in Fds /\ r.max >= r.value
        /\ \E d, g : /\ Taken(r.value, d, g)
                     /\ r.dev = [dev EXCEPT ![r.value] = d]
                     /\ r.fd_flags = [fd_flags EXCEPT ![r.value] = g]

LEMMA OpenLeaves ==
  ASSUME FilesInv, NEW n, NEW f \in SUBSET Flags, NEW r \in OpenResults(n, f)
  PROVE  LeavesPool(r)
<1> USE DEF LeavesPool
<1> DEFINE device == alt_find_dev(n) # {}
           found == IF device THEN alt_find_dev(n) ELSE alt_find_file(n)
<1> USE DEF FilesInv
<1>t. FilesTypeOK
  OBVIOUS
<1>1. alt_max_fd \in alt_max_fd .. MaxFds - 1
  BY FilesAssumption DEF FilesTypeOK
<1>2. CASE found = {} \/ Free = {}
  <2>1. r.dev = dev /\ r.fd_flags = fd_flags /\ r.max = alt_max_fd
        /\ r.value \in Int /\ r.value < 0
    BY <1>2, SMT DEF OpenResults, Opened, ENODEV, EMFILE
  <2> QED BY <2>1, <1>1
<1>3. CASE found # {} /\ Free # {}
  <2>0. PICK i \in alt_get_fd, d \in found : r \in Allocated(i, d, device, f)
    <3>1. OpenResults(n, f) =
            UNION {Allocated(i, d, device, f) : i \in alt_get_fd, d \in found}
      BY <1>3 DEF OpenResults
    <3> QED BY <3>1
  <2> DEFINE devs == [dev EXCEPT ![i] = d]
             g == (f \ Marks) \cup (IF device THEN {"DEV"} ELSE {})
             flags == [fd_flags EXCEPT ![i] = g]
             max == Larger(i, alt_max_fd)
             undone == Released(devs, flags, i)
  <2>1. i \in Fds /\ dev[i] = None
    BY <2>0 DEF alt_get_fd, Least, Free
  <2>2. device => d \in IsDevice
    BY <2>0, FirstIn, Zenon DEF ListsOK, alt_find_dev
  <2>3. ~ device => d \in Dev \ IsDevice
    BY <2>0, FirstIn, Zenon DEF ListsOK, alt_find_file
  <2>4. d \in Dev
    BY <2>2, <2>3, FilesAssumption
  <2>5. i > 2 /\ fd_flags[i] = {}
    BY <2>1, FilesAssumption DEF PoolOK, NothingLeaks, Std, Fds
  <2>6. max \in alt_max_fd .. MaxFds - 1 /\ max >= i
    BY <2>1, FilesAssumption DEF Larger, FilesTypeOK, Fds
  <2>7. undone[1] = dev /\ undone[2] = fd_flags
    <3>1. [devs EXCEPT ![i] = None] = dev
      BY <2>1, <1>t DEF FilesTypeOK
    <3>2. [flags EXCEPT ![i] = {}] = fd_flags
      BY <2>1, <2>5, <1>t DEF FilesTypeOK
    <3> QED BY <3>1, <3>2, <2>5 DEF Released
  <2>8. CASE device /\ alt_file_locked(devs, flags, max, i)
    <3>1. r = Opened(undone[1], undone[2], max, -EACCES)
      BY <2>0, <2>8, Zenon DEF Allocated
    <3> QED BY <3>1, <2>6, <2>7 DEF Opened, EACCES
  <2>9. CASE ~ (device /\ alt_file_locked(devs, flags, max, i))
    <3>1. PICK code \in DriverOpen(d) :
            r = IF code < 0 THEN Opened(undone[1], undone[2], max, code)
                ELSE Opened(devs, flags, max, i)
      BY <2>0, <2>9, Zenon DEF Allocated
    <3>2. CASE code < 0
      BY <3>1, <3>2, <2>6, <2>7 DEF Opened, DriverOpen, EIO
    <3>3. CASE ~ (code < 0)
      <4>1. r = Opened(devs, flags, max, i)
        BY <3>1, <3>3
      <4>2. g \in SUBSET Flags /\ "EXCL" \notin g /\ ("DEV" \in g <=> device)
        BY DEF Marks, Flags
      <4>3. ASSUME device, NEW j \in Fds, "EXCL" \in fd_flags[j]
            PROVE  dev[j] # d
        <5>1. j # i /\ j <= alt_max_fd
          BY <4>3, <2>5 DEF LocksOK, PoolOK
        <5>2. j <= max
          BY <5>1, <2>6, FilesAssumption DEF FilesTypeOK, Fds
        <5>3. devs[j] = dev[j] /\ devs[i] = d /\ flags[j] = fd_flags[j]
          BY <5>1, <2>1, <1>t DEF FilesTypeOK
        <5> QED BY <5>1, <5>2, <5>3, <4>3, <2>9 DEF alt_file_locked
      <4>4. Taken(i, d, g)
        BY <2>1, <2>2, <2>3, <2>4, <4>2, <4>3 DEF Taken
      <4>5. /\ r.value = i /\ r.max = max
            /\ r.dev = [dev EXCEPT ![i] = d]
            /\ r.fd_flags = [fd_flags EXCEPT ![i] = g]
        BY <4>1 DEF Opened
      <4> HIDE DEF g
      <4>6. /\ Taken(r.value, d, g)
            /\ r.dev = [dev EXCEPT ![r.value] = d]
            /\ r.fd_flags = [fd_flags EXCEPT ![r.value] = g]
        BY <4>4, <4>5
      <4>7. \E e, h : /\ Taken(r.value, e, h)
                      /\ r.dev = [dev EXCEPT ![r.value] = e]
                      /\ r.fd_flags = [fd_flags EXCEPT ![r.value] = h]
        BY <4>6
      <4> QED BY <4>5, <4>7, <2>1, <2>6
    <3> QED BY <3>2, <3>3
  <2> QED BY <2>8, <2>9
<1> QED BY <1>2, <1>3

(* A pool in which entry i has been taken.                                 *)
LEMMA TakenKeeps ==
  ASSUME FilesInv, NEW i, NEW d, NEW g, Taken(i, d, g),
         dev' = [dev EXCEPT ![i] = d], fd_flags' = [fd_flags EXCEPT ![i] = g],
         alt_max_fd' \in alt_max_fd .. MaxFds - 1, alt_max_fd' >= i,
         held' = held \cup {i}, stage' = stage,
         UNCHANGED lists
  PROVE  FilesInv'
<1>t. /\ FilesTypeOK /\ ListsOK /\ PoolOK /\ LocksOK /\ NothingLeaks
      /\ DevicesOK /\ i \in Fds /\ i > 2
  BY FilesAssumption DEF FilesInv, Taken, PoolOK, NothingLeaks, Std, Fds
<1>1. FilesTypeOK'
  BY <1>t, FilesAssumption DEF FilesTypeOK, Taken
<1>2. ListsOK'
  BY <1>t DEF ListsOK, lists
<1>a. \A j \in Fds : j # i => dev'[j] = dev[j] /\ fd_flags'[j] = fd_flags[j]
  BY <1>t DEF FilesTypeOK
<1>b. dev'[i] = d /\ fd_flags'[i] = g
  BY <1>t DEF FilesTypeOK
<1>c. alt_max_fd' \in Int /\ alt_max_fd \in Int /\ alt_max_fd' >= alt_max_fd
      /\ Fds \subseteq Int
  BY <1>t, FilesAssumption DEF FilesTypeOK, Fds
<1>3. PoolOK'
  <2>1. Std \subseteq held'
    BY <1>t DEF PoolOK
  <2>2. stage' < 4 => \A j \in Fds : "EXCL" \notin fd_flags'[j]
    BY <1>t, <1>a, <1>b DEF PoolOK, Taken
  <2>3. \A j \in Fds : j > 2 /\ dev'[j] # None => j <= alt_max_fd'
    BY <1>t, <1>a, <1>c DEF PoolOK
  <2>4. \A j \in Fds : "DEV" \in fd_flags'[j] => j <= alt_max_fd' /\ alt_max_fd' > 2
    BY <1>t, <1>a, <1>b, <1>c DEF PoolOK
  <2> QED BY <2>1, <2>2, <2>3, <2>4 DEF PoolOK
<1>4. LocksOK'
  <2> SUFFICES ASSUME NEW h \in Fds, "EXCL" \in fd_flags'[h]
               PROVE  /\ "DEV" \in fd_flags'[h] /\ dev'[h] \in IsDevice
                      /\ \A j \in Fds : h # j /\ dev'[h] = dev'[j] => j > h
    BY DEF LocksOK
  <2>1. h # i /\ "EXCL" \in fd_flags[h] /\ dev'[h] = dev[h]
        /\ fd_flags'[h] = fd_flags[h]
    BY <1>a, <1>b DEF Taken
  <2>2. "DEV" \in fd_flags[h] /\ dev[h] \in IsDevice
    BY <1>t, <2>1 DEF LocksOK
  <2>3. dev[h] # d
    BY <2>1, <2>2 DEF Taken
  <2>4. ASSUME NEW j \in Fds, h # j, dev'[h] = dev'[j] PROVE j > h
    BY <2>1, <2>3, <2>4, <1>a, <1>b, <1>t DEF LocksOK
  <2> QED BY <2>1, <2>2, <2>4
<1>5. NothingLeaks'
  <2>1. d # None
    BY FilesAssumption DEF Taken
  <2> QED BY <1>t, <1>a, <1>b, <2>1 DEF NothingLeaks
<1>6. DevicesOK'
  BY <1>t, <1>a, <1>b DEF DevicesOK, Taken
<1> QED BY <1>1, <1>2, <1>3, <1>4, <1>5, <1>6 DEF FilesInv

(* The pool as it was, with a higher mark and other flags that are not     *)
(* marks: open() that failed, fcntl().                                     *)
LEMMA MarksKeep ==
  ASSUME FilesInv, dev' = dev, fd_flags' \in [Fds -> SUBSET Flags],
         \A i \in Fds : fd_flags'[i] \cap Marks \subseteq fd_flags[i],
         \A i \in Fds : "DEV" \in fd_flags[i] => "DEV" \in fd_flags'[i],
         \A i \in Fds : dev[i] = None => fd_flags'[i] = {},
         alt_max_fd' \in alt_max_fd .. MaxFds - 1,
         held' = held, ListsOK', stage' \in 0 .. 4, stage' < 4 => stage < 4
  PROVE  FilesInv'
<1>t. FilesTypeOK /\ PoolOK /\ LocksOK /\ NothingLeaks /\ DevicesOK
  BY DEF FilesInv
<1>a. alt_max_fd' \in Int /\ alt_max_fd \in Int /\ alt_max_fd' >= alt_max_fd
      /\ Fds \subseteq Int
  BY <1>t, FilesAssumption DEF FilesTypeOK, Fds
<1>b. \A i \in Fds, m \in Marks : m \in fd_flags'[i] => m \in fd_flags[i]
  OBVIOUS
<1>c. /\ \A i \in Fds : "EXCL" \in fd_flags'[i] => "EXCL" \in fd_flags[i]
      /\ \A i \in Fds : "DEV" \in fd_flags'[i] => "DEV" \in fd_flags[i]
  BY <1>b DEF Marks
<1>1. FilesTypeOK'
  BY <1>t, <1>a, FilesAssumption DEF FilesTypeOK
<1>2. PoolOK'
  BY <1>t, <1>a, <1>c DEF PoolOK
<1>3. LocksOK'
  BY <1>t, <1>c DEF LocksOK
<1>4. NothingLeaks'
  BY <1>t DEF NothingLeaks
<1>5. DevicesOK'
  BY <1>t, <1>c DEF DevicesOK
<1> QED BY <1>1, <1>2, <1>3, <1>4, <1>5 DEF FilesInv

(* close(): an entry above the standard streams is given back.             *)
LEMMA CloseKeeps ==
  ASSUME FilesInv, NEW fd \in Fds, Close(fd)
  PROVE  FilesInv'
<1>t. FilesTypeOK /\ ListsOK /\ PoolOK /\ LocksOK /\ NothingLeaks
      /\ DevicesOK
  BY DEF FilesInv
<1>1. CASE fd > 2
  <2>1. /\ dev' = [dev EXCEPT ![fd] = None]
        /\ fd_flags' = [fd_flags EXCEPT ![fd] = {}]
        /\ held' = held \ {fd}
        /\ UNCHANGED <<lists, alt_max_fd, stage>>
    BY <1>1, <1>t DEF Close, Released, PoolOK, Std
  <2>2. /\ dev'[fd] = None /\ fd_flags'[fd] = {}
        /\ \A i \in Fds : i # fd => dev'[i] = dev[i] /\ fd_flags'[i] = fd_flags[i]
    BY <2>1, <1>t DEF FilesTypeOK
  <2>3. FilesTypeOK'
    BY <2>1, <1>t DEF FilesTypeOK
  <2>4. ListsOK'
    BY <2>1, <1>t DEF ListsOK, lists
  <2>5. PoolOK'
    BY <2>1, <2>2, <1>1, <1>t DEF PoolOK, Std
  <2>6. LocksOK'
    BY <2>2, <1>t, FilesAssumption DEF LocksOK
  <2>7. NothingLeaks' /\ DevicesOK'
    BY <2>1, <2>2, <1>t DEF NothingLeaks, DevicesOK
  <2> QED BY <2>3, <2>4, <2>5, <2>6, <2>7 DEF FilesInv
<1>2. CASE ~ (fd > 2)
  <2>1. fd \in Std
    BY <1>2 DEF Fds, Std
  <2>2. /\ dev' = dev /\ fd_flags' = fd_flags /\ held' = held
        /\ UNCHANGED <<lists, alt_max_fd, stage>>
    BY <1>2, <2>1, <1>t DEF Close, Released, PoolOK
  <2> QED BY <2>2, <1>t DEF FilesInv, FilesTypeOK, ListsOK, PoolOK, LocksOK,
             NothingLeaks, DevicesOK, lists
<1> QED BY <1>1, <1>2

(* ioctl(): the search of alt_fd_lock() finds every other user of the      *)
(* device but the highest descriptor.                                      *)
LEMMA LockKeeps ==
  ASSUME FilesInv, NEW fd \in held, "DEV" \in fd_flags[fd], alt_fd_lock(fd),
         stage = 4, UNCHANGED <<lists, dev, alt_max_fd, stage, held>>
  PROVE  FilesInv'
<1>t. FilesTypeOK /\ ListsOK /\ PoolOK /\ LocksOK /\ NothingLeaks
      /\ DevicesOK /\ fd \in Fds
  BY DEF FilesInv, FilesTypeOK
<1> DEFINE others == {i \in Fds : i < alt_max_fd /\ i # fd /\ dev[i] = dev[fd]}
<1>1. CASE others # {}
  <2>1. fd_flags' = fd_flags
    BY <1>1 DEF alt_fd_lock
  <2> QED BY <2>1, <1>t DEF FilesInv, FilesTypeOK, ListsOK, PoolOK, LocksOK,
             NothingLeaks, DevicesOK, lists
<1>2. CASE others = {}
  <2>1. fd_flags' = [fd_flags EXCEPT ![fd] = @ \cup {"EXCL"}]
    BY <1>2 DEF alt_fd_lock
  <2>2. /\ fd_flags'[fd] = fd_flags[fd] \cup {"EXCL"}
        /\ \A i \in Fds : i # fd => fd_flags'[i] = fd_flags[i]
    BY <2>1, <1>t DEF FilesTypeOK
  <2>3. FilesTypeOK'
    BY <2>1, <1>t DEF FilesTypeOK, Flags, Marks
  <2>4. ListsOK' /\ DevicesOK'
    BY <2>2, <1>t DEF ListsOK, DevicesOK, lists
  <2>5. PoolOK'
    BY <2>2, <1>t DEF PoolOK
  <2>6. LocksOK'
    <3>1. ASSUME NEW j \in Fds, fd # j, dev[fd] = dev[j] PROVE j > fd
      <4>1. ~ (j < alt_max_fd)
        BY <3>1, <1>2
      <4>2. fd <= alt_max_fd /\ alt_max_fd > 2
        BY <1>t DEF PoolOK
      <4> QED BY <3>1, <4>1, <4>2, <1>t, FilesAssumption DEF Fds, FilesTypeOK
    <3>2. dev[fd] \in IsDevice
      BY <1>t DEF DevicesOK
    <3> QED BY <2>2, <3>1, <3>2, <1>t DEF LocksOK
  <2>7. NothingLeaks'
    BY <2>2, <1>t DEF NothingLeaks
  <2> QED BY <2>3, <2>4, <2>5, <2>6, <2>7 DEF FilesInv
<1> QED BY <1>1, <1>2

(* A value that is put into one place, copied to another and replaced by   *)
(* what was there before has moved.                                        *)
LEMMA CopiedOver ==
  ASSUME NEW S, NEW T, NEW f \in [S -> T], NEW v \in S, NEW c \in S, c # v, NEW x \in T,
         NEW g, g = [f EXCEPT ![v] = x]
  PROVE  [[g EXCEPT ![c] = g[v]] EXCEPT ![v] = f[v]] = [f EXCEPT ![c] = x]
  OBVIOUS

(* alt_io_redirect(): the copy of a descriptor that is given back.         *)
LEMMA RedirectKeeps ==
  ASSUME FilesInv, alt_open_fd
  PROVE  FilesInv'
<1>t. FilesTypeOK /\ ListsOK /\ PoolOK /\ LocksOK /\ NothingLeaks /\ DevicesOK
  BY DEF FilesInv
<1> DEFINE c == Channel[stage]
           f == IF c = 0 THEN {} ELSE {"WRONLY"}
<1>1. stage \in 1 .. 3 /\ c \in Std
  BY DEF alt_open_fd, Channel, Std
<1>2. f \in SUBSET Flags
  BY DEF Flags
<1> HIDE DEF c, f
<1>3. PICK r \in OpenResults(Streams[stage], f) :
        /\ IF r.value >= 0
           THEN /\ dev' = Copied(r, c)[1] /\ fd_flags' = Copied(r, c)[2]
           ELSE dev' = r.dev /\ fd_flags' = r.fd_flags
        /\ alt_max_fd' = r.max
  BY Zenon DEF alt_open_fd, c, f
<1>4. stage' \in 0 .. 4 /\ held' = held /\ UNCHANGED lists
  BY <1>1 DEF alt_open_fd
<1>5. ListsOK'
  BY <1>4, <1>t DEF ListsOK, lists
<1>6. LeavesPool(r)
  BY <1>2, OpenLeaves
<1>s. stage < 4
  BY <1>1
<1>7. CASE r.value \in Int /\ r.value < 0
           /\ r.dev = dev /\ r.fd_flags = fd_flags
  <2>1. dev' = dev /\ fd_flags' = fd_flags
    BY <1>3, <1>7
  <2>2. alt_max_fd' \in alt_max_fd .. MaxFds - 1
    BY <1>3, <1>6 DEF LeavesPool
  <2>3. /\ fd_flags' \in [Fds -> SUBSET Flags]
        /\ \A i \in Fds : dev[i] = None => fd_flags'[i] = {}
    BY <2>1, <1>t DEF FilesTypeOK, NothingLeaks
  <2> QED BY <2>1, <2>2, <2>3, <1>4, <1>5, <1>s, MarksKeep
<1>8. CASE r.value \in Fds /\ r.max >= r.value
           /\ \E d, g : /\ Taken(r.value, d, g)
                        /\ r.dev = [dev EXCEPT ![r.value] = d]
                        /\ r.fd_flags = [fd_flags EXCEPT ![r.value] = g]
  <2>1. PICK d, g : /\ Taken(r.value, d, g)
                    /\ r.dev = [dev EXCEPT ![r.value] = d]
                    /\ r.fd_flags = [fd_flags EXCEPT ![r.value] = g]
    BY <1>8
  <2> DEFINE v == r.value
  <2>2. v \in Fds /\ dev[v] = None /\ v > 2 /\ c # v /\ c \in Fds /\ fd_flags[v] = {}
    BY <2>1, <1>1, <1>t, FilesAssumption
    DEF Taken, PoolOK, NothingLeaks, Std, Fds
  <2>3. /\ dev' = [[r.dev EXCEPT ![c] = r.dev[v]] EXCEPT ![v] = None]
        /\ fd_flags' = [[r.fd_flags EXCEPT ![c] = r.fd_flags[v]] EXCEPT ![v] = {}]
    BY <1>3, <2>2 DEF Copied, Released, Fds
  <2>4. /\ dev' = [dev EXCEPT ![c] = d]
        /\ fd_flags' = [fd_flags EXCEPT ![c] = g]
    <3>1. /\ dev \in [Fds -> Dev \cup {None}] /\ fd_flags \in [Fds -> SUBSET Flags]
          /\ d \in Dev \cup {None} /\ g \in SUBSET Flags
      BY <2>1, <1>t DEF FilesTypeOK, Taken
    <3>2. [[r.dev EXCEPT ![c] = r.dev[v]] EXCEPT ![v] = dev[v]] = [dev EXCEPT ![c] = d]
      BY <2>1, <2>2, <3>1, CopiedOver, Zenon
    <3>3. [[r.fd_flags EXCEPT ![c] = r.fd_flags[v]] EXCEPT ![v] = fd_flags[v]]
            = [fd_flags EXCEPT ![c] = g]
      BY <2>1, <2>2, <3>1, CopiedOver, Zenon
    <3> QED BY <2>2, <2>3, <3>2, <3>3, Zenon
  <2>5. /\ dev'[c] = d /\ fd_flags'[c] = g
        /\ \A i \in Fds : i # c => dev'[i] = dev[i] /\ fd_flags'[i] = fd_flags[i]
    BY <2>2, <2>4, <1>t DEF FilesTypeOK
  <2>6. /\ alt_max_fd' \in Int /\ alt_max_fd \in Int /\ alt_max_fd' >= alt_max_fd
        /\ alt_max_fd' > 2 /\ Fds \subseteq Int /\ alt_max_fd' <= MaxFds - 1
    BY <1>3, <1>6, <1>8, <2>2, <1>t, FilesAssumption DEF LeavesPool, FilesTypeOK, Fds
  <2>7. d # None /\ c \in held /\ c <= 2
    BY <2>1, <1>1, <1>t, FilesAssumption DEF Taken, PoolOK, Std
  <2>8. FilesTypeOK'
    <3>1. dev' \in [Fds -> Dev \cup {None}] /\ fd_flags' \in [Fds -> SUBSET Flags]
      BY <2>1, <2>2, <2>4, <1>t DEF FilesTypeOK, Taken
    <3>2. alt_max_fd' \in -1 .. MaxFds - 1
      BY <2>6, FilesAssumption
    <3> QED BY <3>1, <3>2, <1>4, <1>t DEF FilesTypeOK
  <2>9. \A i \in Fds : "EXCL" \notin fd_flags'[i]
    BY <2>1, <2>5, <1>s, <1>t DEF PoolOK, Taken
  <2>10. PoolOK'
    <3>1. \A i \in Fds : i > 2 /\ dev'[i] # None => i <= alt_max_fd'
      BY <2>5, <2>6, <2>7, <1>t DEF PoolOK
    <3>2. ASSUME NEW i \in Fds, "DEV" \in fd_flags'[i] PROVE i <= alt_max_fd'
      <4>1. i \in Int /\ alt_max_fd \in Int /\ alt_max_fd' \in Int
        BY <2>6
      <4>2. CASE i = c
        BY <2>6, <2>7, <4>1, <4>2
      <4>3. CASE i # c
        <5>1. fd_flags'[i] = fd_flags[i]
          BY <2>5, <4>3
        <5>2. i <= alt_max_fd
          BY <3>2, <5>1, <1>t DEF PoolOK
        <5> QED BY <2>6, <4>1, <5>2
      <4> QED BY <4>2, <4>3
    <3> QED BY <2>6, <2>9, <3>1, <3>2, <1>4, <1>t DEF PoolOK
  <2>11. LocksOK'
    BY <2>9 DEF LocksOK
  <2>12. NothingLeaks'
    BY <2>5, <2>7, <1>4, <1>t DEF NothingLeaks
  <2>13. DevicesOK'
    BY <2>1, <2>5, <1>t DEF DevicesOK, Taken
  <2> QED BY <2>8, <2>10, <2>11, <2>12, <2>13, <1>5 DEF FilesInv
<1> QED BY <1>6, <1>7, <1>8 DEF LeavesPool

LEMMA OpenKeeps ==
  ASSUME FilesInv, NEW n, NEW f \in SUBSET Flags, Open(n, f)
  PROVE  FilesInv'
<1>1. PICK r \in OpenResults(n, f) :
        /\ dev' = r.dev /\ fd_flags' = r.fd_flags /\ alt_max_fd' = r.max
        /\ held' = IF r.value >= 0 THEN held \cup {r.value} ELSE held
  BY DEF Open
<1>2. stage' = stage /\ UNCHANGED lists /\ stage = 4
  BY DEF Open
<1>3. LeavesPool(r)
  BY OpenLeaves
<1>4. CASE r.value \in Int /\ r.value < 0
           /\ r.dev = dev /\ r.fd_flags = fd_flags
  <2>1. /\ fd_flags \in [Fds -> SUBSET Flags] /\ ListsOK'
        /\ \A i \in Fds : dev[i] = None => fd_flags[i] = {}
    BY <1>2 DEF FilesInv, FilesTypeOK, NothingLeaks, ListsOK, lists
  <2>2. /\ dev' = dev /\ fd_flags' = fd_flags /\ held' = held
        /\ alt_max_fd' \in alt_max_fd .. MaxFds - 1
    BY <1>1, <1>3, <1>4 DEF LeavesPool
  <2> QED BY <1>2, <2>1, <2>2, MarksKeep
<1>5. CASE r.value \in Fds /\ r.max >= r.value
           /\ \E d, g : /\ Taken(r.value, d, g)
                        /\ r.dev = [dev EXCEPT ![r.value] = d]
                        /\ r.fd_flags = [fd_flags EXCEPT ![r.value] = g]
  <2>1. held' = held \cup {r.value}
    BY <1>1, <1>5 DEF Fds
  <2> QED BY <1>1, <1>2, <1>3, <1>5, <2>1, TakenKeeps DEF LeavesPool
<1> QED BY <1>3, <1>4, <1>5 DEF LeavesPool

LEMMA FilesInitInv == FilesInit => FilesInv
<1> SUFFICES ASSUME FilesInit PROVE FilesInv
  OBVIOUS
<1>1. FilesTypeOK
  BY FilesAssumption DEF FilesInit, FilesTypeOK, Fds, Std
<1>2. ListsOK
  BY FilesAssumption DEF FilesInit, ListsOK
<1>3. PoolOK /\ LocksOK /\ NothingLeaks /\ DevicesOK
  BY FilesAssumption
  DEF FilesInit, PoolOK, LocksOK, NothingLeaks, DevicesOK, Fds, Std
<1> QED BY <1>1, <1>2, <1>3 DEF FilesInv

LEMMA InsertIn ==
  ASSUME NEW T, NEW list \in Seq(T), NEW d \in T
  PROVE  Insert(list, d) \in Seq(T)
  BY ConcatProperties DEF Insert

(* Registration inserts structures of the right kind.                      *)
LEMMA RegisterKeeps ==
  ASSUME FilesInv, NEW d \in Dev, RegisterDevice(d) \/ RegisterFileSystem(d)
  PROVE  FilesInv'
<1>1. UNCHANGED <<table, stage, held>>
  BY DEF RegisterDevice, RegisterFileSystem
<1>2. ListsOK'
  <2>1. CASE RegisterDevice(d)
    BY <2>1, InsertIn DEF RegisterDevice, FilesInv, ListsOK
  <2>2. CASE RegisterFileSystem(d)
    BY <2>2, InsertIn DEF RegisterFileSystem, FilesInv, ListsOK
  <2> QED BY <2>1, <2>2
<1> QED BY <1>1, <1>2 DEF FilesInv, FilesTypeOK, PoolOK, LocksOK,
       NothingLeaks, DevicesOK, table

LEMMA FilesStep == FilesInv /\ [FilesNext]_filesVars => FilesInv'
<1> SUFFICES ASSUME FilesInv, [FilesNext]_filesVars PROVE FilesInv'
  OBVIOUS
<1>t. FilesTypeOK /\ ListsOK /\ NothingLeaks
  BY DEF FilesInv
<1>0. ASSUME UNCHANGED <<table, stage, held>>, UNCHANGED lists
      PROVE  FilesInv'
  BY <1>0 DEF FilesInv, FilesTypeOK, ListsOK, PoolOK, LocksOK, NothingLeaks,
     DevicesOK, table, lists
<1>1. CASE UNCHANGED filesVars
  BY <1>0, <1>1 DEF filesVars, table, lists
<1>2. ASSUME NEW d \in Dev, RegisterDevice(d) \/ RegisterFileSystem(d)
      PROVE  FilesInv'
  BY <1>2, RegisterKeeps
<1>3. CASE RedirectBegins
  BY <1>3 DEF RedirectBegins, FilesInv, FilesTypeOK, ListsOK, PoolOK, LocksOK,
     NothingLeaks, DevicesOK, table, lists
<1>4. CASE alt_open_fd
  BY <1>4, RedirectKeeps
<1>5. ASSUME NEW n \in Names, NEW f \in OpenFlags, Open(n, f)
      PROVE  FilesInv'
  BY <1>5, OpenKeeps, FilesAssumption
<1>6. ASSUME NEW fd \in Callers, Close(fd)
      PROVE  FilesInv'
  BY <1>6, CloseKeeps, FilesAssumption
<1>7. ASSUME NEW fd \in Callers, NEW req \in Requests, Ioctl(fd, req)
      PROVE  FilesInv'
  <2>1. /\ stage = 4 /\ fd \in held
        /\ UNCHANGED <<lists, dev, alt_max_fd, stage, held>>
    BY <1>7 DEF Ioctl, Usable
  <2>2. CASE "DEV" \in fd_flags[fd] /\ alt_fd_lock(fd)
    BY <2>1, <2>2, LockKeeps
  <2>3. CASE alt_fd_unlock(fd)
    <3>1. fd_flags' = [fd_flags EXCEPT ![fd] = @ \ {"EXCL"}]
      BY <2>3 DEF alt_fd_unlock
    <3>2. /\ fd_flags' \in [Fds -> SUBSET Flags]
          /\ \A i \in Fds : fd_flags'[i] \cap Marks \subseteq fd_flags[i]
          /\ \A i \in Fds : "DEV" \in fd_flags[i] => "DEV" \in fd_flags'[i]
          /\ \A i \in Fds : dev[i] = None => fd_flags'[i] = {}
      BY <3>1, <1>t DEF FilesTypeOK, NothingLeaks
    <3> QED BY <2>1, <3>2, <1>t, MarksKeep, FilesAssumption
            DEF FilesTypeOK, ListsOK, lists
  <2>4. CASE UNCHANGED fd_flags
    BY <1>0, <2>1, <2>4 DEF table
  <2> QED BY <1>7, <2>2, <2>3, <2>4 DEF Ioctl
<1>8. ASSUME NEW fd \in Callers, NEW f \in FcntlFlags, SetFlags(fd, f)
      PROVE  FilesInv'
  <2>1. /\ stage = 4 /\ fd \in held
        /\ UNCHANGED <<lists, dev, alt_max_fd, stage, held>>
        /\ fd_flags' = [fd_flags EXCEPT ![fd] = (@ \ Settable) \cup (f \cap Settable)]
    BY <1>8 DEF SetFlags, Usable
  <2>2. /\ fd_flags' \in [Fds -> SUBSET Flags]
        /\ \A i \in Fds : fd_flags'[i] \cap Marks \subseteq fd_flags[i]
        /\ \A i \in Fds : "DEV" \in fd_flags[i] => "DEV" \in fd_flags'[i]
        /\ \A i \in Fds : dev[i] = None => fd_flags'[i] = {}
    BY <2>1, <1>t, FilesAssumption
    DEF FilesTypeOK, NothingLeaks, Marks, Settable, Flags
  <2> QED BY <2>1, <2>2, <1>t, MarksKeep, FilesAssumption
          DEF FilesTypeOK, ListsOK, lists
<1>9. CASE Enquire
  BY <1>0, <1>9 DEF Enquire
<1> QED BY <1>1, <1>2, <1>3, <1>4, <1>5, <1>6, <1>7, <1>8, <1>9 DEF FilesNext

(* The pool of descriptors holds what the program holds (alt_open.c,       *)
(* alt_close.c, alt_io_redirect.c): nothing leaks, whatever fails.         *)
THEOREM PoolIsRight == FilesSpec => [](FilesTypeOK /\ NothingLeaks)
<1>1. FilesInv => FilesTypeOK /\ NothingLeaks
  BY DEF FilesInv
<1> QED BY <1>1, FilesInitInv, FilesStep, PTL DEF FilesSpec

(* A device never has two exclusive users (alt_fd_lock.c), although the    *)
(* search of alt_fd_lock() leaves out the highest descriptor.              *)
THEOREM OneHolderAlways == FilesSpec => []OneHolder
<1>1. FilesInv => OneHolder
  <2> SUFFICES ASSUME FilesInv, NEW i \in Fds, NEW j \in Fds,
                      "EXCL" \in fd_flags[i]
               PROVE  /\ i <= alt_max_fd
                      /\ i # j /\ dev[i] = dev[j] => "EXCL" \notin fd_flags[j]
    BY DEF OneHolder
  <2>1. i <= alt_max_fd
    BY DEF FilesInv, PoolOK, LocksOK
  <2>2. ASSUME i # j, dev[i] = dev[j], "EXCL" \in fd_flags[j] PROVE FALSE
    <3>1. j > i /\ i > j
      BY <2>2 DEF FilesInv, LocksOK
    <3> QED BY <3>1, FilesAssumption DEF Fds
  <2> QED BY <2>1, <2>2
<1> QED BY <1>1, FilesInitInv, FilesStep, PTL DEF FilesSpec

-----------------------------------------------------------------------------
(* What a step may do to a lock.                                           *)
LocksStay ==
  \A i \in Fds : "EXCL" \in fd_flags[i] =>
    /\ \A j \in Fds : dev'[j] = dev[i] => dev[j] = dev[i]
    /\ "EXCL" \notin fd_flags'[i] => Close(i) \/ Ioctl(i, "TIOCNXCL")

LEMMA TableStays == UNCHANGED table => LocksStay
  BY DEF LocksStay, table

(* open() takes an entry that is free, for a device that is not locked or  *)
(* for a file system.                                                      *)
LEMMA OpenLocks ==
  ASSUME FilesInv, NEW n, NEW f \in SUBSET Flags, Open(n, f)
  PROVE  LocksStay
<1>1. PICK r \in OpenResults(n, f) : dev' = r.dev /\ fd_flags' = r.fd_flags
  BY DEF Open
<1>2. LeavesPool(r)
  BY OpenLeaves
<1>3. CASE r.dev = dev /\ r.fd_flags = fd_flags
  BY <1>1, <1>3 DEF LocksStay
<1>4. CASE \E d, g : /\ Taken(r.value, d, g)
                     /\ r.dev = [dev EXCEPT ![r.value] = d]
                     /\ r.fd_flags = [fd_flags EXCEPT ![r.value] = g]
  <2>1. PICK d, g : /\ Taken(r.value, d, g)
                    /\ r.dev = [dev EXCEPT ![r.value] = d]
                    /\ r.fd_flags = [fd_flags EXCEPT ![r.value] = g]
    BY <1>4
  <2> SUFFICES ASSUME NEW i \in Fds, "EXCL" \in fd_flags[i]
               PROVE  /\ \A j \in Fds : dev'[j] = dev[i] => dev[j] = dev[i]
                      /\ "EXCL" \in fd_flags'[i]
    BY DEF LocksStay
  <2>2. i # r.value /\ r.value \in Fds
    BY <2>1 DEF Taken, FilesInv, NothingLeaks
  <2>3. /\ dev'[r.value] = d /\ fd_flags'[i] = fd_flags[i]
        /\ \A j \in Fds \ {r.value} : dev'[j] = dev[j]
    BY <1>1, <2>1, <2>2 DEF FilesInv, FilesTypeOK
  <2>4. dev[i] # d
    BY <2>1 DEF Taken, FilesInv, LocksOK
  <2> QED BY <2>2, <2>3, <2>4
<1> QED BY <1>2, <1>3, <1>4 DEF LeavesPool

LEMMA CloseLocks ==
  ASSUME FilesInv, NEW fd \in Fds, Close(fd)
  PROVE  LocksStay
<1>1. /\ \A j \in Fds : dev'[j] = dev[j] \/ dev'[j] = None
      /\ \A j \in Fds \ {fd} : fd_flags'[j] = fd_flags[j]
  BY DEF Close, Released, FilesInv, FilesTypeOK
<1>2. \A i \in Fds : "EXCL" \in fd_flags[i] => dev[i] # None
  BY DEF FilesInv, NothingLeaks
<1> QED BY <1>1, <1>2 DEF LocksStay

(* Only its own TIOCNXCL takes the mark from a descriptor.                 *)
LEMMA IoctlLocks ==
  ASSUME FilesInv, NEW fd \in Fds, NEW req, Ioctl(fd, req)
  PROVE  LocksStay
<1>1. UNCHANGED dev /\ fd_flags \in [Fds -> SUBSET Flags]
  BY DEF Ioctl, FilesInv, FilesTypeOK
<1>2. CASE req = "TIOCNXCL"
  <2>1. \A j \in Fds \ {fd} : fd_flags'[j] = fd_flags[j]
    BY <1>1, <1>2 DEF Ioctl, alt_fd_unlock
  <2> QED BY <1>1, <1>2, <2>1 DEF LocksStay
<1>3. CASE req # "TIOCNXCL"
  <2>1. \A j \in Fds : fd_flags[j] \subseteq fd_flags'[j]
    BY <1>1, <1>3 DEF Ioctl, alt_fd_lock
  <2> QED BY <1>1, <2>1 DEF LocksStay
<1> QED BY <1>2, <1>3

LEMMA SetFlagsLocks ==
  ASSUME FilesInv, NEW fd \in Fds, NEW f, SetFlags(fd, f)
  PROVE  LocksStay
<1>1. UNCHANGED dev /\ fd_flags \in [Fds -> SUBSET Flags]
  BY DEF SetFlags, FilesInv, FilesTypeOK
<1>2. \A j \in Fds : "EXCL" \in fd_flags[j] => "EXCL" \in fd_flags'[j]
  BY <1>1 DEF SetFlags, Settable
<1> QED BY <1>1, <1>2 DEF LocksStay

(* A lock lasts (alt_fd_lock.c) until its own descriptor is unlocked or    *)
(* closed, and nobody else gets the device meanwhile, for every pool, set  *)
(* of devices and program.                                                 *)
THEOREM LockLasts == FilesSpec => LockKept
<1>1. ASSUME FilesInv, [FilesNext]_filesVars PROVE LocksStay
  <2>1. CASE UNCHANGED filesVars \/ Enquire \/ RedirectBegins
    BY <2>1, TableStays DEF filesVars, table, Enquire, RedirectBegins
  <2>2. ASSUME NEW d \in Dev, RegisterDevice(d) \/ RegisterFileSystem(d)
        PROVE  LocksStay
    BY <2>2, TableStays DEF RegisterDevice, RegisterFileSystem
  <2>3. CASE alt_open_fd
    BY <1>1, <2>3 DEF alt_open_fd, FilesInv, PoolOK, LocksStay
  <2>4. ASSUME NEW n \in Names, NEW f \in OpenFlags, Open(n, f)
        PROVE  LocksStay
    BY <1>1, <2>4, OpenLocks, FilesAssumption
  <2>5. ASSUME NEW fd \in Callers,
               \/ Close(fd) \/ (\E req \in Requests : Ioctl(fd, req))
               \/ \E f \in FcntlFlags : SetFlags(fd, f)
        PROVE  LocksStay
    BY <1>1, <2>5, CloseLocks, IoctlLocks, SetFlagsLocks, FilesAssumption
  <2> QED BY <1>1, <2>1, <2>2, <2>3, <2>4, <2>5 DEF FilesNext
<1>2. LocksStay =>
        [\A i \in Fds : "EXCL" \in fd_flags[i] =>
           /\ \A j \in Fds : dev'[j] = dev[i] => dev[j] = dev[i]
           /\ "EXCL" \notin fd_flags'[i] =>
                \/ Close(i)
                \/ Ioctl(i, "TIOCNXCL")]_filesVars
  BY DEF LocksStay
<1> QED BY <1>1, <1>2, FilesInitInv, FilesStep, PTL DEF FilesSpec, LockKept
-----------------------------------------------------------------------------
(* The polled UART.                                                        *)

(* A character is put only where there is space, and read() fills no more  *)
(* than its buffer.                                                        *)
TxChars == 0 .. TxNumbers - 1
RxChars == 0 .. RxNumbers - 1

SmallInv ==
  /\ txFifo \in Seq(TxChars) /\ Len(txFifo) <= HwDepth
  /\ rxFifo \in Seq(RxChars) /\ Len(rxFifo) <= HwDepth
  /\ txNext \in TxChars /\ rxNext \in RxChars
  /\ call = "put" => Len(txFifo) < HwDepth /\ todo > 0
  /\ todo \in Nat /\ filled \in Seq(RxChars)
  /\ IF call = "read" THEN Len(filled) + todo <= MaxSpace ELSE filled = << >>

LEMMA SmallInitInv == SmallInit => SmallInv
  BY SmallAssumption DEF SmallInit, SmallInv, TxChars, RxChars

LEMMA CharsWrap ==
  /\ \A x \in TxChars : x % TxNumbers = x /\ (x + 1) % TxNumbers \in TxChars
  /\ \A x \in RxChars : x % RxNumbers = x /\ (x + 1) % RxNumbers \in RxChars
<1>1. /\ TxNumbers \in Nat /\ TxNumbers > 0
      /\ RxNumbers \in Nat /\ RxNumbers > 0
  BY SmallAssumption
<1> QED BY <1>1, SMT DEF TxChars, RxChars

LEMMA HeadLeaves ==
  ASSUME NEW S, NEW b \in Seq(S), b # << >>
  PROVE  /\ Head(b) \in S /\ Tail(b) \in Seq(S) /\ Len(Tail(b)) = Len(b) - 1
         /\ Head(b) = b[1] /\ 1 <= Len(b) /\ Tail(b) = SubSeq(b, 1 + 1, Len(b))
<1>1. Head(b) \in S /\ Tail(b) \in Seq(S) /\ Len(Tail(b)) = Len(b) - 1
  BY HeadTailProperties
<1>2. Head(b) = b[1] /\ 1 <= Len(b)
  BY SMT
<1>3. 1 + 1 = 2
  OBVIOUS
<1> QED BY <1>1, <1>2, <1>3, TailIsSubSeq

(* Each step keeps it.                                                     *)
LEMMA SmallStepInv == SmallInv /\ [SmallNext]_smallVars => SmallInv'
<1> SUFFICES ASSUME SmallInv, [SmallNext]_smallVars PROVE SmallInv'
  OBVIOUS
<1> USE DEF SmallInv, callVars, txVars, rxVars
<1>0. /\ HwDepth \in Nat /\ MaxSpace \in Nat
      /\ Counts \subseteq Nat /\ Spaces \subseteq 0 .. MaxSpace
  BY SmallAssumption
<1>1. ASSUME NEW k \in Counts, NEW flag \in BOOLEAN, Call("write", k, flag)
      PROVE  SmallInv'
  BY <1>0, <1>1 DEF Call
<1>2. ASSUME NEW k \in Spaces, NEW flag \in BOOLEAN, Call("read", k, flag)
      PROVE  SmallInv'
  BY <1>0, <1>2 DEF Call
<1>3. CASE FindSpace
  BY <1>3 DEF FindSpace
<1>4. CASE PutCharacter
  <2>1. /\ call = "put" /\ call' = "write" /\ todo' = todo - 1 /\ filled = << >>
        /\ txFifo' = Append(txFifo, txNext) /\ txNext' = (txNext + 1) % TxNumbers
        /\ UNCHANGED <<filled, rxFifo, rxNext>>
    BY <1>4 DEF PutCharacter
  <2>2. txFifo' \in Seq(TxChars) /\ Len(txFifo') = Len(txFifo) + 1
    BY <2>1, AppendProperties
  <2>3. txNext' \in TxChars
    BY <2>1, CharsWrap
  <2>4. Len(txFifo) \in Nat /\ Len(txFifo) < HwDepth /\ todo' \in Nat
    BY <2>1, LenProperties
  <2> QED BY <1>0, <2>1, <2>2, <2>3, <2>4
<1>5. CASE WriteReturns
  BY <1>5 DEF WriteReturns
<1>6. CASE TakeCharacter
  <2>1. /\ call = "read" /\ todo > 0 /\ rxFifo # << >> /\ todo' = todo - 1
        /\ filled' = Append(filled, Head(rxFifo)) /\ rxFifo' = Tail(rxFifo)
        /\ UNCHANGED <<call, txFifo, txNext, rxNext>>
    BY <1>6 DEF TakeCharacter
  <2>2. Head(rxFifo) \in RxChars /\ rxFifo' \in Seq(RxChars) /\ Len(rxFifo') = Len(rxFifo) - 1
    BY <2>1, HeadLeaves
  <2>3. filled' \in Seq(RxChars) /\ Len(filled') = Len(filled) + 1
    BY <2>1, <2>2, AppendProperties
  <2> QED BY <1>0, <2>1, <2>2, <2>3
<1>7. CASE FindNoCharacter
  BY <1>0, <1>7 DEF FindNoCharacter
<1>8. CASE ReadReturns
  BY <1>8 DEF ReadReturns
<1>9. CASE HostTake
  <2>1. /\ txFifo # << >> /\ txFifo' = Tail(txFifo)
        /\ UNCHANGED <<call, todo, filled, txNext, rxFifo, rxNext>>
    BY <1>9 DEF HostTake
  <2>2. txFifo' \in Seq(TxChars) /\ Len(txFifo') = Len(txFifo) - 1
    BY <2>1, HeadLeaves
  <2> QED BY <1>0, <2>1, <2>2
<1>10. CASE HostSend
  <2>1. /\ Len(rxFifo) < HwDepth /\ rxFifo' = Append(rxFifo, rxNext)
        /\ rxNext' = (rxNext + 1) % RxNumbers
        /\ UNCHANGED <<call, todo, filled, txFifo, txNext>>
    BY <1>10 DEF HostSend
  <2>2. rxFifo' \in Seq(RxChars) /\ Len(rxFifo') = Len(rxFifo) + 1
    BY <2>1, AppendProperties
  <2>3. rxNext' \in RxChars
    BY <2>1, CharsWrap
  <2> QED BY <1>0, <2>1, <2>2, <2>3
<1>11. CASE UNCHANGED smallVars
  BY <1>11 DEF smallVars
<1> QED BY <1>1, <1>2, <1>3, <1>4, <1>5, <1>6, <1>7, <1>8, <1>9, <1>10, <1>11
        DEF SmallNext, Writes, Reads

(* One character is handed over.                                           *)
LEMMA PutsOne ==
  ASSUME NEW S, NEW w \in Seq(S), NEW x \in S, NEW m, S = 0 .. m - 1, m \in Nat
  PROVE  Append(w, x) = w \o [j \in 1 .. 1 |-> (x + j - 1) % m]
<1>1. Append(w, x) = w \o <<x>>
  BY AppendIsConcat
<1>2. <<x>> = [j \in 1 .. 1 |-> (x + j - 1) % m]
  <2>1. \A j \in 1 .. 1 : j = 1
    OBVIOUS
  <2>2. (x + 1 - 1) % m = x
    <3>1. m > 0 /\ x \in Nat /\ x < m /\ x + 1 - 1 = x
      OBVIOUS
    <3> QED BY <3>1, SMT
  <2> QED BY <2>1, <2>2
<1> QED BY <1>1, <1>2

(* write() puts a character on the line, the host takes one from it.       *)
LEMMA ToHostStep ==
  SmallInv /\ [SmallNext]_smallVars => [ToHost!ChannelNext]_(ToHost!channelVars)
<1> SUFFICES ASSUME SmallInv, [SmallNext]_smallVars
             PROVE  [ToHost!ChannelNext]_(ToHost!channelVars)
  OBVIOUS
<1> USE DEF callVars, txVars, rxVars
<1>1. CASE PutCharacter
  <2>1. /\ Len(txFifo) < HwDepth /\ txFifo' = Append(txFifo, txNext)
        /\ txNext' = (txNext + 1) % TxNumbers /\ txGot' = txGot
        /\ Len(txFifo) \in Nat /\ HwDepth \in Nat /\ TxNumbers \in Nat
    BY <1>1, SmallAssumption DEF PutCharacter, SmallInv
  <2>2. txFifo' = txFifo \o [j \in 1 .. 1 |-> (txNext + j - 1) % TxNumbers]
    BY <2>1, PutsOne DEF SmallInv, TxChars
  <2>3. ToHost!Put(1)
    BY <2>1, <2>2 DEF ToHost!Put
  <2> QED BY <2>1, <2>3 DEF ToHost!ChannelNext
<1>2. CASE HostTake
  <2>1. /\ txFifo # << >> /\ txFifo' = Tail(txFifo)
        /\ txGot' = (Head(txFifo) + 1) % TxNumbers /\ txNext' = txNext
        /\ HwDepth \in Nat \ {0}
    BY <1>2, SmallAssumption DEF HostTake
  <2>2. /\ Head(txFifo) = txFifo[1] /\ 1 <= Len(txFifo)
        /\ txFifo' = SubSeq(txFifo, 1 + 1, Len(txFifo))
    BY <2>1, HeadLeaves DEF SmallInv
  <2>3. ToHost!Take(1)
    BY <2>1, <2>2 DEF ToHost!Take
  <2> QED BY <2>1, <2>3 DEF ToHost!ChannelNext, ToHost!Receive
<1>3. CASE ~PutCharacter /\ ~HostTake
  BY <1>3 DEF SmallNext, smallVars, Writes, Reads, Call, FindSpace, WriteReturns,
     TakeCharacter, FindNoCharacter, ReadReturns, HostSend, ToHost!channelVars
<1> QED BY <1>1, <1>2, <1>3

(* The host puts a character on the line, and read() takes all it has      *)
(* filled its buffer with when it returns; before, it only moves them.     *)
LEMMA FromHostStep ==
  SmallInv /\ [SmallNext]_smallVars => [FromHost!ChannelNext]_(FromHost!channelVars)
<1> SUFFICES ASSUME SmallInv, [SmallNext]_smallVars
             PROVE  [FromHost!ChannelNext]_(FromHost!channelVars)
  OBVIOUS
<1> USE DEF callVars, txVars, rxVars
<1> DEFINE w == filled \o rxFifo
<1>0. /\ filled \in Seq(RxChars) /\ rxFifo \in Seq(RxChars)
      /\ Len(filled) \in Nat /\ Len(rxFifo) \in Nat
      /\ Len(filled) <= MaxSpace /\ Len(rxFifo) <= HwDepth
      /\ HwDepth \in Nat \ {0} /\ MaxSpace \in Nat /\ RxNumbers \in Nat
      /\ w \in Seq(RxChars) /\ Len(w) = Len(filled) + Len(rxFifo)
  <2>1. /\ filled \in Seq(RxChars) /\ rxFifo \in Seq(RxChars) /\ Len(rxFifo) <= HwDepth
        /\ HwDepth \in Nat \ {0} /\ MaxSpace \in Nat /\ RxNumbers \in Nat
    BY SmallAssumption DEF SmallInv
  <2>2. Len(filled) \in Nat /\ Len(rxFifo) \in Nat
    BY <2>1, LenProperties
  <2>3. Len(filled) <= MaxSpace
    BY <2>1, <2>2 DEF SmallInv
  <2>4. w \in Seq(RxChars) /\ Len(w) = Len(filled) + Len(rxFifo)
    BY <2>1, ConcatProperties
  <2> QED BY <2>1, <2>2, <2>3, <2>4
<1>1. CASE HostSend
  <2>1. /\ Len(rxFifo) < HwDepth /\ rxFifo' = Append(rxFifo, rxNext)
        /\ rxNext' = (rxNext + 1) % RxNumbers /\ UNCHANGED <<filled, rxGot>>
        /\ rxNext \in RxChars
    BY <1>1 DEF HostSend, SmallInv
  <2>2. w' = Append(w, rxNext)
    <3>1. rxFifo' = rxFifo \o <<rxNext>> /\ Append(w, rxNext) = w \o <<rxNext>>
      BY <1>0, <2>1, AppendIsConcat
    <3>2. <<rxNext>> \in Seq(RxChars)
      BY <2>1
    <3>3. w \o <<rxNext>> = filled \o (rxFifo \o <<rxNext>>)
      BY <1>0, <3>2, ConcatAssociative
    <3> QED BY <2>1, <3>1, <3>3
  <2>3. w' = w \o [j \in 1 .. 1 |-> (rxNext + j - 1) % RxNumbers]
    <3> HIDE DEF w
    <3>1. RxChars = 0 .. RxNumbers - 1
      BY DEF RxChars
    <3>2. Append(w, rxNext) = w \o [j \in 1 .. 1 |-> (rxNext + j - 1) % RxNumbers]
      <4>1. w \in Seq(RxChars) /\ rxNext \in RxChars /\ RxNumbers \in Nat
        BY <1>0, <2>1
      <4> QED BY <3>1, <4>1, PutsOne, Zenon
    <3> QED BY <2>2, <3>2
  <2>4. Len(w) + 1 <= HwDepth + MaxSpace /\ 1 \in 1 .. HwDepth + MaxSpace
    BY <1>0, <2>1
  <2>5. FromHost!Put(1)
    BY <2>1, <2>3, <2>4 DEF FromHost!Put
  <2> QED BY <2>4, <2>5 DEF FromHost!ChannelNext
<1>2. CASE TakeCharacter
  <2>1. /\ rxFifo # << >> /\ filled' = Append(filled, Head(rxFifo))
        /\ rxFifo' = Tail(rxFifo) /\ UNCHANGED <<rxNext, rxGot>>
    BY <1>2 DEF TakeCharacter
  <2>2. w' = w
    <3>1. Head(rxFifo) \in RxChars /\ Tail(rxFifo) \in Seq(RxChars)
          /\ <<Head(rxFifo)>> \in Seq(RxChars)
      BY <1>0, <2>1, HeadLeaves
    <3>2. filled' = filled \o <<Head(rxFifo)>>
      BY <1>0, <2>1, <3>1, AppendIsConcat
    <3>3. <<Head(rxFifo)>> \o Tail(rxFifo) = rxFifo
      <4>1. 1 \in 1 .. Len(rxFifo) /\ Len(rxFifo) \in 1 .. Len(rxFifo)
        BY <1>0, <2>1, HeadLeaves
      <4>2. SubSeq(rxFifo, 1, Len(rxFifo))
              = <<rxFifo[1]>> \o SubSeq(rxFifo, 1 + 1, Len(rxFifo))
        BY <1>0, <4>1, SubSeqRecursiveFirst
      <4>3. SubSeq(rxFifo, 1, Len(rxFifo)) = rxFifo
        BY <1>0, SubSeqFull
      <4> QED BY <1>0, <2>1, <4>2, <4>3, HeadLeaves
    <3>4. (filled \o <<Head(rxFifo)>>) \o Tail(rxFifo)
            = filled \o (<<Head(rxFifo)>> \o Tail(rxFifo))
      BY <1>0, <3>1, ConcatAssociative
    <3> QED BY <2>1, <3>2, <3>3, <3>4
  <2> QED BY <2>1, <2>2 DEF FromHost!channelVars
<1>3. CASE ReadReturns /\ filled # << >>
  <2>1. /\ rxGot' = (filled[Len(filled)] + 1) % RxNumbers /\ filled' = << >>
        /\ UNCHANGED <<rxFifo, rxNext>>
    BY <1>3 DEF ReadReturns
  <2>2. Len(filled) \in 1 .. HwDepth + MaxSpace /\ Len(filled) <= Len(w)
    BY <1>0, <1>3, EmptySeq
  <2>3. w[Len(filled)] = filled[Len(filled)]
    BY <1>0, <2>2, ConcatProperties
  <2>4. SubSeq(w, Len(filled) + 1, Len(w)) = rxFifo
    BY <1>0, <2>2
  <2>5. w' = rxFifo
    <3>1. << >> \o rxFifo = rxFifo
      BY <1>0, ConcatEmptySeq
    <3> QED BY <2>1, <3>1
  <2>6. FromHost!Take(Len(filled))
    BY <2>1, <2>2, <2>3, <2>4, <2>5 DEF FromHost!Take
  <2> QED BY <2>2, <2>6 DEF FromHost!ChannelNext, FromHost!Receive
<1>4. CASE ReadReturns /\ filled = << >>
  BY <1>4 DEF ReadReturns, FromHost!channelVars
<1>5. CASE ~HostSend /\ ~TakeCharacter /\ ~ReadReturns
  <2>1. UNCHANGED <<rxFifo, rxNext, rxGot>>
    BY <1>5 DEF SmallNext, smallVars, Writes, Reads, Call, FindSpace, PutCharacter,
       WriteReturns, FindNoCharacter, HostTake
  <2>2. filled' = filled
    BY <1>5 DEF SmallInv, SmallNext, smallVars, Writes, Reads, Call, FindSpace, PutCharacter,
       WriteReturns, FindNoCharacter, HostTake
  <2> QED BY <2>1, <2>2 DEF FromHost!channelVars
<1> QED BY <1>1, <1>2, <1>3, <1>4, <1>5

(* What write() of the polled UART is given reaches the host, once and in  *)
(* order, and so does read() get what the host sends, for every depth of   *)
(* the FIFOs and all buffers.                                              *)
THEOREM PolledDelivers == SmallSpec => PolledLine
<1>1. SmallSpec => []SmallInv
  BY SmallInitInv, SmallStepInv, PTL DEF SmallSpec
<1>2. SmallInit => ToHost!ChannelInit /\ FromHost!ChannelInit
  <2> SUFFICES ASSUME SmallInit PROVE ToHost!ChannelInit /\ FromHost!ChannelInit
    OBVIOUS
  <2>1. << >> \o << >> = << >>
    BY ConcatEmptySeq
  <2> QED BY <2>1 DEF SmallInit, ToHost!ChannelInit, FromHost!ChannelInit
<1> QED BY <1>1, <1>2, ToHostStep, FromHostStep, PTL
        DEF SmallSpec, PolledLine, ToHost!ChannelSafety, FromHost!ChannelSafety
-----------------------------------------------------------------------------
(* The alarms.                                                             *)

(* The alarms, in the order of the list, and an entry's neighbours in it:  *)
(* place 0 and the one behind the last are the head's.                     *)
Place(n, order, k) == IF k \in 1 .. n THEN order[k] ELSE alt_alarm_list

Linked(n, order) ==
  /\ n \in Nat /\ order \in [1 .. n -> registered]
  /\ \A j, k \in 1 .. n : order[j] = order[k] => j = k
  /\ \A a \in registered : \E k \in 1 .. n : order[k] = a
  /\ \A k \in 0 .. n : /\ next[Place(n, order, k)] = Place(n, order, k + 1)
                       /\ previous[Place(n, order, k + 1)] = Place(n, order, k)

(* Outside the list, an alarm that has been in it points to itself.        *)
Unlinked ==
  \A a \in Alarm \ registered :
    next[a] # Null => next[a] = a /\ previous[a] = a

(* Of an alarm whose callback is to come; of one that alt_tick() has not   *)
(* come to yet: its flag is still up when the counter has just wrapped; of *)
(* the one whose callback runs.                                            *)
InTime(a) ==
  /\ left[a] \in 1 .. Ticks - 1 /\ time[a] = (alt_nticks + left[a]) % Ticks
  /\ rollover[a] <=> alt_nticks + left[a] >= Ticks

ToVisit(a) ==
  /\ left[a] \in 0 .. Ticks - 1 /\ time[a] = (alt_nticks + left[a]) % Ticks
  /\ rollover[a] <=> alt_nticks = 0 \/ alt_nticks + left[a] >= Ticks

Called(a) == left[a] = 0 /\ time[a] = alt_nticks /\ ~rollover[a]

(* alt_tick() is at place p of the list, what is before it has been        *)
(* visited; while a callback runs p is where it will go on.                *)
Walk(n, order, p) ==
  /\ p \in 1 .. n + 1
  /\ pc = "idle" => \A a \in registered : InTime(a)
  /\ pc = "list" =>
       /\ alarm = Place(n, order, p)
       /\ \A k \in 1 .. n : IF k < p THEN InTime(order[k]) ELSE ToVisit(order[k])
  /\ pc = "callback" =>
       /\ alarm \in Alarm /\ following = Place(n, order, p)
       /\ alarm \in registered => p > 1 /\ order[p - 1] = alarm /\ Called(alarm)
       /\ \A k \in 1 .. n :
            IF k < p THEN order[k] # alarm => InTime(order[k]) ELSE ToVisit(order[k])

WalkInv == \E n \in Nat : \E order \in [1 .. n -> registered] : \E p \in 1 .. n + 1 :
             Linked(n, order) /\ Walk(n, order, p)

AlarmsInv == AlarmsTypeOK /\ Unlinked /\ WalkInv

(* No callback stops another alarm than its own, and no delay is the       *)
(* longest one, with which the time would be that of the tick itself.      *)
OwnAlarmsInTime == ~StopsOthers /\ Ticks - 1 \notin Delays

LEMMA TickRemainder ==
  ASSUME NEW a \in 0 .. Ticks - 1, NEW b \in 0 .. Ticks - 1
  PROVE  (a + b) % Ticks = IF a + b < Ticks THEN a + b ELSE a + b - Ticks
<1>1. Ticks \in Nat /\ Ticks > 0
  BY AlarmsAssumption
<1>2. CASE a + b < Ticks
  BY <1>1, <1>2, SMT
<1>3. CASE a + b >= Ticks
  <2>1. PICK y \in Int : y = a + b
    OBVIOUS
  <2>2. PICK r \in 0 .. Ticks - 1 : r = y % Ticks
    BY <1>1, SMT
  <2>3. PICK q \in Int : q = y \div Ticks
    BY <1>1, SMT
  <2>4. y = Ticks * q + r
    BY <1>1, <2>2, <2>3, SMT
  <2>5. Ticks <= y /\ y < 2 * Ticks
    BY <1>1, <1>3, <2>1
  <2>6. q = 1
    <3>1. CASE q >= 2
      <4>1. Ticks * q >= 2 * Ticks
        BY <1>1, <3>1
      <4> QED BY <1>1, <2>4, <2>5, <4>1
    <3>2. CASE q <= 0
      <4>1. Ticks * q <= 0
        BY <1>1, <3>2
      <4> QED BY <1>1, <2>4, <2>5, <4>1
    <3> QED BY <3>1, <3>2
  <2>7. r = y - Ticks
    BY <1>1, <2>4, <2>6
  <2> QED BY <1>1, <1>3, <2>1, <2>2, <2>7
<1> QED BY <1>1, <1>2, <1>3

(* Places are different, but for that of the head at both ends.            *)
LEMMA PlacesDiffer ==
  ASSUME AlarmsTypeOK, NEW n, NEW order, Linked(n, order)
  PROVE  /\ \A k \in 0 .. n + 1 : Place(n, order, k) \in registered \cup {alt_alarm_list}
         /\ \A j, k \in 0 .. n : Place(n, order, j) = Place(n, order, k) => j = k
         /\ \A j, k \in 1 .. n + 1 : Place(n, order, j) = Place(n, order, k) => j = k
         /\ \A k \in 1 .. n : Place(n, order, k) = order[k] /\ order[k] \in registered
         /\ Place(n, order, 0) = alt_alarm_list /\ Place(n, order, n + 1) = alt_alarm_list
<1>1. /\ n \in Nat /\ alt_alarm_list \notin registered /\ order \in [1 .. n -> registered]
      /\ \A j, k \in 1 .. n : order[j] = order[k] => j = k
  BY AlarmsAssumption DEF Linked, AlarmsTypeOK
<1>2. \A k \in 1 .. n : Place(n, order, k) = order[k] /\ order[k] \in registered
  BY <1>1 DEF Place
<1>3. Place(n, order, 0) = alt_alarm_list /\ Place(n, order, n + 1) = alt_alarm_list
  BY <1>1 DEF Place
<1>4. \A k \in 0 .. n + 1 : k \in 1 .. n \/ k = 0 \/ k = n + 1
  BY <1>1
<1>5. \A j, k \in 0 .. n : Place(n, order, j) = Place(n, order, k) => j = k
  <2> TAKE j, k \in 0 .. n
  <2>1. (j \in 1 .. n \/ j = 0) /\ (k \in 1 .. n \/ k = 0)
    BY <1>1
  <2> QED BY <1>1, <1>2, <1>3, <2>1
<1>6. \A j, k \in 1 .. n + 1 : Place(n, order, j) = Place(n, order, k) => j = k
  <2> TAKE j, k \in 1 .. n + 1
  <2>1. (j \in 1 .. n \/ j = n + 1) /\ (k \in 1 .. n \/ k = n + 1)
    BY <1>1
  <2> QED BY <1>1, <1>2, <1>3, <2>1
<1> QED BY <1>2, <1>3, <1>4, <1>5, <1>6

(* An alarm goes to the head of the list.                                  *)
Longer(n, order, a) == [k \in 1 .. n + 1 |-> IF k = 1 THEN a ELSE order[k - 1]]

LEMMA InsertLinks ==
  ASSUME AlarmsTypeOK, NEW n, NEW order, Linked(n, order),
         NEW a \in Alarm \ registered, alt_llist_insert(a),
         registered' = registered \cup {a}
  PROVE  /\ Linked(n + 1, Longer(n, order, a))'
         /\ next' \in [Entry -> Entry \cup {Null}]
         /\ previous' \in [Entry -> Entry \cup {Null}]
         /\ \A x \in Alarm \ registered' : next'[x] = next[x] /\ previous'[x] = previous[x]
         /\ \A k \in 1 .. n + 1 :
              Place(n + 1, Longer(n, order, a), k + 1) = Place(n, order, k)
<1> DEFINE P(k) == Place(n, order, k)
           longer == Longer(n, order, a)
           Q(k) == Place(n + 1, longer, k)
<1>0. /\ n \in Nat /\ order \in [1 .. n -> registered]
      /\ \A j, k \in 1 .. n : order[j] = order[k] => j = k
      /\ \A b \in registered : \E k \in 1 .. n : order[k] = b
      /\ \A k \in 0 .. n : next[P(k)] = P(k + 1) /\ previous[P(k + 1)] = P(k)
  BY DEF Linked
<1>1. /\ registered \subseteq Alarm /\ alt_alarm_list \notin Alarm
      /\ next \in [Entry -> Entry \cup {Null}] /\ previous \in [Entry -> Entry \cup {Null}]
      /\ a \in Alarm /\ a \notin registered /\ a # alt_alarm_list
  BY AlarmsAssumption DEF AlarmsTypeOK
<1>2. /\ \A k \in 0 .. n + 1 : P(k) \in registered \cup {alt_alarm_list}
      /\ \A j, k \in 0 .. n : P(j) = P(k) => j = k
      /\ \A j, k \in 1 .. n + 1 : P(j) = P(k) => j = k
      /\ \A k \in 1 .. n : P(k) = order[k] /\ order[k] \in registered
      /\ P(0) = alt_alarm_list /\ P(n + 1) = alt_alarm_list
  BY PlacesDiffer
<1>3. next[alt_alarm_list] = P(1) /\ P(1) # a /\ P(1) \in Entry
  <2>1. 0 \in 0 .. n /\ 1 \in 0 .. n + 1 /\ 0 + 1 = 1
    BY <1>0
  <2> QED BY <1>0, <1>1, <1>2, <2>1 DEF Entry
<1>4. \A x \in Entry :
        /\ next'[x] = IF x = alt_alarm_list THEN a ELSE IF x = a THEN P(1) ELSE next[x]
        /\ previous'[x] = IF x = P(1) THEN a ELSE IF x = a THEN alt_alarm_list
                          ELSE previous[x]
  BY <1>1, <1>3 DEF alt_llist_insert
<1>5. next' \in [Entry -> Entry \cup {Null}] /\ previous' \in [Entry -> Entry \cup {Null}]
  BY <1>1, <1>3 DEF alt_llist_insert, Entry
<1>6. /\ Q(0) = alt_alarm_list /\ Q(1) = a
      /\ \A k \in 1 .. n + 1 : Q(k + 1) = P(k)
  <2>1. Q(0) = alt_alarm_list /\ Q(1) = a
    BY <1>0 DEF Place, Longer
  <2>2. ASSUME NEW k \in 1 .. n + 1 PROVE Q(k + 1) = P(k)
    <3>1. CASE k \in 1 .. n
      <4>1. k + 1 \in 1 .. n + 1 /\ k + 1 # 1 /\ (k + 1) - 1 = k
        BY <1>0, <3>1
      <4>2. longer[k + 1] = order[k]
        BY <4>1 DEF Longer
      <4> QED BY <3>1, <4>1, <4>2 DEF Place
    <3>2. CASE k = n + 1
      <4>1. k + 1 \notin 1 .. n + 1 /\ k \notin 1 .. n
        BY <1>0, <3>2
      <4> QED BY <4>1 DEF Place
    <3> QED BY <1>0, <3>1, <3>2
  <2> QED BY <2>1, <2>2
<1>7. /\ longer \in [1 .. n + 1 -> registered']
      /\ \A j, k \in 1 .. n + 1 : longer[j] = longer[k] => j = k
      /\ \A b \in registered' : \E k \in 1 .. n + 1 : longer[k] = b
  <2>1. \A k \in 1 .. n + 1 : k # 1 => k - 1 \in 1 .. n
    BY <1>0
  <2>2. longer \in [1 .. n + 1 -> registered']
    BY <1>0, <2>1 DEF Longer
  <2>3. ASSUME NEW j \in 1 .. n + 1, NEW k \in 1 .. n + 1, longer[j] = longer[k]
        PROVE  j = k
    <3>1. CASE j = 1 \/ k = 1
      BY <1>0, <1>1, <2>1, <2>3, <3>1 DEF Longer
    <3>2. CASE j # 1 /\ k # 1
      <4>1. j - 1 = k - 1
        BY <1>0, <2>1, <2>3, <3>2 DEF Longer
      <4> QED BY <1>0, <4>1
    <3> QED BY <3>1, <3>2
  <2>4. ASSUME NEW b \in registered' PROVE \E k \in 1 .. n + 1 : longer[k] = b
    <3>1. CASE b = a
      <4>1. 1 \in 1 .. n + 1 /\ longer[1] = a
        BY <1>0 DEF Longer
      <4> QED BY <3>1, <4>1
    <3>2. CASE b # a
      <4>1. PICK k \in 1 .. n : order[k] = b
        BY <1>0, <3>2
      <4>2. k + 1 \in 1 .. n + 1 /\ k + 1 # 1 /\ (k + 1) - 1 = k
        BY <1>0
      <4>3. longer[k + 1] = b
        BY <4>1, <4>2 DEF Longer
      <4> QED BY <4>2, <4>3
    <3> QED BY <3>1, <3>2
  <2> QED BY <2>2, <2>3, <2>4
<1>8. ASSUME NEW k \in 0 .. n + 1
      PROVE  next'[Q(k)] = Q(k + 1) /\ previous'[Q(k + 1)] = Q(k)
  <2>1. CASE k = 0
    <3>1. a \in Entry /\ alt_alarm_list \in Entry
      BY <1>1 DEF Entry
    <3> QED BY <1>1, <1>3, <1>4, <1>6, <2>1, <3>1
  <2>2. CASE k = 1
    <3>1. 1 \in 1 .. n + 1 /\ a \in Entry
      BY <1>0, <1>1 DEF Entry
    <3>2. Q(1 + 1) = P(1) /\ Q(1) = a
      BY <1>6, <3>1
    <3> QED BY <1>1, <1>3, <1>4, <2>2, <3>1, <3>2
  <2>3. CASE k > 1
    <3>1. PICK m \in 1 .. n : k = m + 1
      <4>1. k - 1 \in 1 .. n /\ k = (k - 1) + 1
        BY <1>0, <2>3
      <4> QED BY <4>1
    <3>2. m \in 1 .. n + 1 /\ m + 1 \in 1 .. n + 1 /\ m \in 0 .. n /\ 1 \in 1 .. n + 1
          /\ m + 1 # 1 /\ m \in 0 .. n + 1 /\ m + 1 \in 0 .. n + 1
      BY <1>0
    <3>3. Q(k) = P(m) /\ Q(k + 1) = P(m + 1)
      BY <1>6, <3>1, <3>2
    <3>4. next[P(m)] = P(m + 1) /\ previous[P(m + 1)] = P(m)
      BY <1>0, <3>2
    <3>5. P(m) # alt_alarm_list /\ P(m) # a /\ P(m) \in Entry
      BY <1>1, <1>2 DEF Entry
    <3>6. P(m + 1) # P(1) /\ P(m + 1) # a /\ P(m + 1) \in Entry
      BY <1>1, <1>2, <3>2 DEF Entry
    <3> QED BY <1>4, <3>3, <3>4, <3>5, <3>6
  <2> QED BY <2>1, <2>2, <2>3
<1>9. Linked(n + 1, longer)'
  BY <1>0, <1>7, <1>8 DEF Linked
<1>10. \A x \in Alarm \ registered' : next'[x] = next[x] /\ previous'[x] = previous[x]
  <2>1. 1 \in 0 .. n + 1
    BY <1>0
  <2> QED BY <1>1, <1>2, <1>4, <2>1 DEF Entry
<1> QED BY <1>5, <1>6, <1>9, <1>10

(* The alarm at place p is taken out of the list.                          *)
Shorter(n, order, p) == [k \in 1 .. n - 1 |-> IF k < p THEN order[k] ELSE order[k + 1]]

LEMMA RemoveLinks ==
  ASSUME AlarmsTypeOK, NEW n, NEW order, Linked(n, order), NEW p \in 1 .. n,
         alt_llist_remove(order[p]), registered' = registered \ {order[p]}
  PROVE  /\ Linked(n - 1, Shorter(n, order, p))'
         /\ next' \in [Entry -> Entry \cup {Null}]
         /\ previous' \in [Entry -> Entry \cup {Null}]
         /\ next'[order[p]] = order[p] /\ previous'[order[p]] = order[p]
         /\ \A x \in Alarm \ registered : next'[x] = next[x] /\ previous'[x] = previous[x]
         /\ \A k \in 0 .. n : Place(n - 1, Shorter(n, order, p), k)
                                = IF k < p THEN Place(n, order, k) ELSE Place(n, order, k + 1)
<1> DEFINE P(k) == Place(n, order, k)
           shorter == Shorter(n, order, p)
           Q(k) == Place(n - 1, shorter, k)
           e == order[p]
<1>0. /\ n \in Nat /\ n - 1 \in Nat /\ order \in [1 .. n -> registered]
      /\ \A j, k \in 1 .. n : order[j] = order[k] => j = k
      /\ \A b \in registered : \E k \in 1 .. n : order[k] = b
      /\ \A k \in 0 .. n : next[P(k)] = P(k + 1) /\ previous[P(k + 1)] = P(k)
      /\ p \in Int /\ p - 1 \in 0 .. n /\ p + 1 \in 1 .. n + 1 /\ p \in 0 .. n
      /\ p \in 1 .. n + 1 /\ (p - 1) + 1 = p /\ p - 1 \in 0 .. n + 1 /\ p + 1 \in 0 .. n + 1
      /\ p # p + 1
  <2>1. /\ n \in Nat /\ order \in [1 .. n -> registered]
        /\ \A j, k \in 1 .. n : order[j] = order[k] => j = k
        /\ \A b \in registered : \E k \in 1 .. n : order[k] = b
        /\ \A k \in 0 .. n : next[P(k)] = P(k + 1) /\ previous[P(k + 1)] = P(k)
    BY DEF Linked
  <2>2. n - 1 \in Nat /\ p \in Int /\ (p - 1) + 1 = p /\ p # p + 1
    BY <2>1
  <2>3. /\ p - 1 \in 0 .. n /\ p \in 0 .. n /\ p - 1 \in 0 .. n + 1
        /\ p \in 1 .. n + 1 /\ p + 1 \in 1 .. n + 1 /\ p + 1 \in 0 .. n + 1
    BY <2>1
  <2> QED BY <2>1, <2>2, <2>3
<1>1. /\ registered \subseteq Alarm /\ alt_alarm_list \notin Alarm
      /\ next \in [Entry -> Entry \cup {Null}] /\ previous \in [Entry -> Entry \cup {Null}]
  BY AlarmsAssumption DEF AlarmsTypeOK
<1>2. /\ \A k \in 0 .. n + 1 : P(k) \in registered \cup {alt_alarm_list}
      /\ \A j, k \in 0 .. n : P(j) = P(k) => j = k
      /\ \A j, k \in 1 .. n + 1 : P(j) = P(k) => j = k
      /\ \A k \in 1 .. n : P(k) = order[k] /\ order[k] \in registered
      /\ P(0) = alt_alarm_list /\ P(n + 1) = alt_alarm_list
  BY PlacesDiffer
<1>3. /\ \A k \in 0 .. n + 1 : P(k) \in Entry
      /\ e \in Entry /\ e = P(p) /\ e \in registered /\ e # alt_alarm_list
  BY <1>1, <1>2 DEF Entry
<1>4. next[e] = P(p + 1) /\ previous[e] = P(p - 1) /\ P(p + 1) # e /\ P(p - 1) # e
  <2>1. next[e] = P(p + 1)
    BY <1>0, <1>3
  <2>2. previous[P((p - 1) + 1)] = P(p - 1)
    BY <1>0
  <2>3. P(p + 1) # e
    BY <1>0, <1>2, <1>3
  <2>4. P(p - 1) # e
    <3>1. p - 1 # p
      BY <1>0
    <3> QED BY <1>0, <1>2, <1>3, <3>1
  <2> QED BY <1>0, <1>3, <2>1, <2>2, <2>3, <2>4
<1>5. \A x \in Entry :
        /\ next'[x] = IF x = e THEN e ELSE IF x = P(p - 1) THEN P(p + 1) ELSE next[x]
        /\ previous'[x] = IF x = e THEN e ELSE IF x = P(p + 1) THEN P(p - 1)
                          ELSE previous[x]
  <2> DEFINE unlinked == [previous EXCEPT ![next[e]] = previous[e]]
  <2>1. /\ unlinked \in [Entry -> Entry \cup {Null}] /\ unlinked[e] = P(p - 1)
        /\ \A x \in Entry : unlinked[x] = IF x = P(p + 1) THEN P(p - 1) ELSE previous[x]
    BY <1>0, <1>1, <1>3, <1>4
  <2>2. /\ next' = [next EXCEPT ![unlinked[e]] = next[e], ![e] = e]
        /\ previous' = [unlinked EXCEPT ![e] = e]
    BY DEF alt_llist_remove
  <2> HIDE DEF unlinked
  <2> QED BY <1>0, <1>1, <1>3, <1>4, <2>1, <2>2
<1>6. next' \in [Entry -> Entry \cup {Null}] /\ previous' \in [Entry -> Entry \cup {Null}]
  BY <1>0, <1>1, <1>3, <1>4 DEF alt_llist_remove
<1>7. \A k \in 0 .. n : Q(k) = IF k < p THEN P(k) ELSE P(k + 1)
  <2> TAKE k \in 0 .. n
  <2>1. CASE k = 0
    <3>1. 0 < p /\ k \notin 1 .. n - 1
      BY <1>0, <2>1
    <3> QED BY <1>2, <2>1, <3>1 DEF Place
  <2>2. CASE k \in 1 .. n - 1
    <3>1. k \in 1 .. n /\ k + 1 \in 1 .. n
      BY <1>0, <2>2
    <3> QED BY <2>2, <3>1 DEF Place, Shorter
  <2>3. CASE k = n /\ k # 0
    <3>1. ~(k < p) /\ k \notin 1 .. n - 1
      BY <1>0, <2>3
    <3> QED BY <1>2, <2>3, <3>1 DEF Place
  <2> QED BY <1>0, <2>1, <2>2, <2>3
<1>8. /\ shorter \in [1 .. n - 1 -> registered']
      /\ \A j, k \in 1 .. n - 1 : shorter[j] = shorter[k] => j = k
      /\ \A b \in registered' : \E k \in 1 .. n - 1 : shorter[k] = b
  <2>1. \A k \in 1 .. n - 1 :
          /\ k \in 1 .. n /\ k + 1 \in 1 .. n
          /\ shorter[k] = order[IF k < p THEN k ELSE k + 1]
          /\ (IF k < p THEN k ELSE k + 1) # p
    <3>1. n \in Nat /\ p \in Int
      BY <1>0
    <3>2. ASSUME NEW k \in 1 .. n - 1
          PROVE  /\ k \in 1 .. n /\ k + 1 \in 1 .. n
                 /\ (IF k < p THEN k ELSE k + 1) # p
      BY <3>1
    <3> QED BY <3>2 DEF Shorter
  <2>2. shorter \in [1 .. n - 1 -> registered']
    <3>1. ASSUME NEW k \in 1 .. n - 1 PROVE shorter[k] \in registered'
      <4> DEFINE m == IF k < p THEN k ELSE k + 1
      <4>1. m \in 1 .. n /\ m # p /\ shorter[k] = order[m]
        BY <2>1
      <4> HIDE DEF m
      <4> QED BY <1>0, <4>1
    <3> QED BY <3>1 DEF Shorter
  <2>3. ASSUME NEW j \in 1 .. n - 1, NEW k \in 1 .. n - 1, shorter[j] = shorter[k]
        PROVE  j = k
    <3> DEFINE old(m) == IF m < p THEN m ELSE m + 1
    <3>0. old(j) \in 1 .. n /\ old(k) \in 1 .. n /\ order[old(j)] = order[old(k)]
      BY <2>1, <2>3
    <3>1. (IF j < p THEN j ELSE j + 1) = (IF k < p THEN k ELSE k + 1)
      <4> HIDE DEF old
      <4>1. old(j) = old(k)
        BY <1>0, <3>0
      <4> QED BY <4>1 DEF old
    <3>2. j \in Int /\ k \in Int /\ p \in Int
      BY <1>0
    <3> QED BY <3>1, <3>2
  <2>4. ASSUME NEW b \in registered' PROVE \E k \in 1 .. n - 1 : shorter[k] = b
    <3>1. PICK m \in 1 .. n : order[m] = b
      BY <1>0
    <3>2. m # p
      BY <3>1
    <3>3. CASE m < p
      <4>1. m \in 1 .. n - 1
        BY <1>0, <3>3
      <4> QED BY <2>1, <3>1, <3>3, <4>1
    <3>4. CASE m > p
      <4>1. m - 1 \in 1 .. n - 1 /\ ~(m - 1 < p) /\ (m - 1) + 1 = m
        BY <1>0, <3>4
      <4> QED BY <2>1, <3>1, <4>1
    <3> QED BY <1>0, <3>2, <3>3, <3>4
  <2> QED BY <2>2, <2>3, <2>4
<1>9. ASSUME NEW k \in 0 .. n - 1
      PROVE  next'[Q(k)] = Q(k + 1) /\ previous'[Q(k + 1)] = Q(k)
  <2>0. k \in 0 .. n /\ k + 1 \in 0 .. n /\ k + 1 \in 0 .. n + 1 /\ k + 1 + 1 \in 0 .. n + 1
        /\ k \in 0 .. n + 1 /\ k + 1 \in 1 .. n + 1 /\ k + 1 + 1 \in 1 .. n + 1
    <3>1. n \in Nat /\ k \in Int /\ 0 <= k /\ k <= n - 1
      BY <1>0
    <3> QED BY <3>1
  <2>1. CASE k + 1 < p
    <3>1. k < p /\ k # p - 1 /\ k # p /\ k + 1 # p + 1 /\ k + 1 # p
      BY <1>0, <2>1
    <3>2. Q(k) = P(k) /\ Q(k + 1) = P(k + 1)
      BY <1>7, <2>0, <2>1, <3>1
    <3>3. P(k) # e /\ P(k) # P(p - 1) /\ P(k + 1) # e /\ P(k + 1) # P(p + 1)
      BY <1>0, <1>2, <1>3, <2>0, <3>1
    <3>4. next[P(k)] = P(k + 1) /\ previous[P(k + 1)] = P(k)
      BY <1>0, <2>0
    <3> QED BY <1>3, <1>5, <2>0, <3>2, <3>3, <3>4
  <2>2. CASE k + 1 = p
    <3>1. k < p /\ ~(k + 1 < p) /\ k = p - 1 /\ k + 1 + 1 = p + 1
      BY <1>0, <2>2
    <3>2. Q(k) = P(p - 1) /\ Q(k + 1) = P(p + 1)
      BY <1>7, <2>0, <3>1
    <3> QED BY <1>0, <1>3, <1>4, <1>5, <3>2
  <2>3. CASE p < k + 1
    <3>1. ~(k < p) /\ ~(k + 1 < p) /\ k + 1 # p - 1 /\ k + 1 + 1 # p + 1 /\ k + 1 + 1 # p
      BY <1>0, <2>3
    <3>2. Q(k) = P(k + 1) /\ Q(k + 1) = P(k + 1 + 1)
      BY <1>7, <2>0, <3>1
    <3>3. P(k + 1) # e /\ P(k + 1) # P(p - 1) /\ P(k + 1 + 1) # e
          /\ P(k + 1 + 1) # P(p + 1)
      BY <1>0, <1>2, <1>3, <2>0, <2>3, <3>1
    <3>4. next[P(k + 1)] = P(k + 1 + 1) /\ previous[P(k + 1 + 1)] = P(k + 1)
      BY <1>0, <2>0
    <3> QED BY <1>3, <1>5, <2>0, <3>2, <3>3, <3>4
  <2> QED BY <1>0, <2>1, <2>2, <2>3
<1>10. Linked(n - 1, shorter)'
  BY <1>0, <1>8, <1>9 DEF Linked
<1>11. \A x \in Alarm \ registered : next'[x] = next[x] /\ previous'[x] = previous[x]
  BY <1>0, <1>1, <1>2, <1>3, <1>5 DEF Entry
<1>12. next'[e] = e /\ previous'[e] = e
  BY <1>3, <1>5
<1> QED BY <1>6, <1>7, <1>10, <1>11, <1>12

(* An alarm that is not in the list can be stopped without harm.           *)
LEMMA StopUnlinked ==
  ASSUME AlarmsTypeOK, Unlinked, NEW a \in Alarm \ registered, Stop(a)
  PROVE  next' = next /\ previous' = previous /\ registered' = registered
<1>1. /\ next \in [Entry -> Entry \cup {Null}] /\ previous \in [Entry -> Entry \cup {Null}]
      /\ a \in Entry /\ next[a] = a /\ previous[a] = a
  BY DEF AlarmsTypeOK, Unlinked, Stop, Entry
<1>2. [previous EXCEPT ![next[a]] = previous[a]] = previous
  BY <1>1
<1>3. /\ next' = [next EXCEPT ![previous[a]] = next[a], ![a] = a]
      /\ previous' = [previous EXCEPT ![a] = a]
  BY <1>2 DEF Stop, alt_llist_remove
<1>4. next' = next /\ previous' = previous
  BY <1>1, <1>3
<1> QED BY <1>4 DEF Stop

LEMMA LinksStay ==
  ASSUME NEW n, NEW order, Linked(n, order), UNCHANGED <<next, previous, registered>>
  PROVE  Linked(n, order)'
  BY DEF Linked

LEMMA TimesStay ==
  ASSUME NEW a \in Alarm, AlarmsTypeOK, UNCHANGED <<alt_nticks, time, rollover>>,
         left'[a] = left[a]
  PROVE  /\ InTime(a) => InTime(a)'
         /\ ToVisit(a) => ToVisit(a)'
         /\ Called(a) => Called(a)'
  BY DEF InTime, ToVisit, Called

(* When alt_tick() comes to an alarm, it finds out whether it is due.      *)
LEMMA DueIsKnown ==
  ASSUME AlarmsTypeOK, NEW a \in Alarm, ToVisit(a)
  PROVE  LET up == rollover[a] /\ alt_nticks # 0
         IN  /\ time[a] <= alt_nticks /\ ~up => left[a] = 0 /\ time[a] = alt_nticks
             /\ ~(time[a] <= alt_nticks /\ ~up) =>
                  left[a] \in 1 .. Ticks - 1 /\ (up <=> alt_nticks + left[a] >= Ticks)
<1>1. /\ Ticks \in Nat /\ alt_nticks \in 0 .. Ticks - 1 /\ left[a] \in 0 .. Ticks - 1
      /\ time[a] = (alt_nticks + left[a]) % Ticks /\ rollover[a] \in BOOLEAN
      /\ rollover[a] <=> alt_nticks = 0 \/ alt_nticks + left[a] >= Ticks
  BY AlarmsAssumption DEF AlarmsTypeOK, ToVisit
<1>2. time[a] = IF alt_nticks + left[a] < Ticks THEN alt_nticks + left[a]
                ELSE alt_nticks + left[a] - Ticks
  BY <1>1, TickRemainder
<1>3. (rollover[a] /\ alt_nticks # 0) <=> alt_nticks + left[a] >= Ticks
  BY <1>1
<1>4. time[a] \in Int
  BY <1>1, <1>2
<1> QED BY <1>1, <1>2, <1>3, <1>4

(* The counter goes on, and all alarms are a tick nearer.                  *)
LEMMA TickNearer ==
  ASSUME AlarmsTypeOK, NEW a \in Alarm, InTime(a), UNCHANGED <<time, rollover>>,
         alt_nticks' = (alt_nticks + 1) % Ticks, left'[a] = left[a] - 1
  PROVE  ToVisit(a)' /\ alt_nticks' \in 0 .. Ticks - 1
<1>1. /\ Ticks \in Nat /\ alt_nticks \in 0 .. Ticks - 1 /\ left[a] \in 1 .. Ticks - 1
      /\ time[a] = (alt_nticks + left[a]) % Ticks
      /\ rollover[a] <=> alt_nticks + left[a] >= Ticks
  BY AlarmsAssumption DEF AlarmsTypeOK, InTime
<1>2. 1 \in 0 .. Ticks - 1 /\ left[a] \in 0 .. Ticks - 1 /\ left[a] - 1 \in 0 .. Ticks - 1
  BY <1>1
<1>3. time[a] = IF alt_nticks + left[a] < Ticks THEN alt_nticks + left[a]
                ELSE alt_nticks + left[a] - Ticks
  BY <1>1, <1>2, TickRemainder
<1>4. alt_nticks' = IF alt_nticks + 1 < Ticks THEN alt_nticks + 1 ELSE alt_nticks + 1 - Ticks
  BY <1>1, <1>2, TickRemainder
<1>5. alt_nticks' \in 0 .. Ticks - 1
  BY <1>1, <1>4
<1>6. (alt_nticks' + left'[a]) % Ticks
        = IF alt_nticks' + left'[a] < Ticks THEN alt_nticks' + left'[a]
          ELSE alt_nticks' + left'[a] - Ticks
  BY <1>2, <1>5, TickRemainder
<1>7. (alt_nticks' + left'[a]) % Ticks = time[a]
  BY <1>1, <1>3, <1>4, <1>6
<1>8. rollover[a] <=> alt_nticks' = 0 \/ alt_nticks' + left'[a] >= Ticks
  BY <1>1, <1>4
<1> QED BY <1>2, <1>5, <1>7, <1>8 DEF ToVisit

(* A time set for d ticks from now on.                                     *)
LEMMA SetInTime ==
  ASSUME AlarmsTypeOK, NEW a \in Alarm, NEW d \in 1 .. Ticks - 1,
         alt_nticks' = alt_nticks, time'[a] = (alt_nticks + d) % Ticks,
         rollover'[a] = ((alt_nticks + d) % Ticks < alt_nticks), left'[a] = d
  PROVE  InTime(a)' /\ time'[a] \in 0 .. Ticks - 1
<1>1. Ticks \in Nat /\ alt_nticks \in 0 .. Ticks - 1 /\ d \in 0 .. Ticks - 1
  BY AlarmsAssumption DEF AlarmsTypeOK
<1>2. (alt_nticks + d) % Ticks = IF alt_nticks + d < Ticks THEN alt_nticks + d
                                 ELSE alt_nticks + d - Ticks
  BY <1>1, TickRemainder
<1>3. (alt_nticks + d) % Ticks < alt_nticks <=> alt_nticks + d >= Ticks
  BY <1>1, <1>2
<1>4. (alt_nticks + d) % Ticks \in 0 .. Ticks - 1
  BY <1>1, <1>2
<1> QED BY <1>3, <1>4 DEF InTime

LEMMA AlarmsInitInv == AlarmsInit => AlarmsInv
<1> SUFFICES ASSUME AlarmsInit PROVE AlarmsInv
  OBVIOUS
<1>1. AlarmsTypeOK
  BY AlarmsAssumption DEF AlarmsInit, AlarmsTypeOK, Entry
<1>2. Unlinked
  BY AlarmsAssumption DEF AlarmsInit, Unlinked, Entry
<1>3. WalkInv
  <2> DEFINE order == [k \in 1 .. 0 |-> alt_alarm_list]
  <2>1. order \in [1 .. 0 -> registered]
    OBVIOUS
  <2>2. Linked(0, order)
    <3>1. Place(0, order, 0) = alt_alarm_list /\ Place(0, order, 0 + 1) = alt_alarm_list
      BY DEF Place
    <3>2. next[alt_alarm_list] = alt_alarm_list /\ previous[alt_alarm_list] = alt_alarm_list
      BY DEF AlarmsInit, Entry
    <3>3. \A k \in 0 .. 0 : k = 0
      OBVIOUS
    <3> QED BY <2>1, <3>1, <3>2, <3>3 DEF Linked, AlarmsInit
  <2>3. Walk(0, order, 1)
    BY DEF Walk, AlarmsInit
  <2>4. 0 \in Nat /\ 1 \in 1 .. 0 + 1
    OBVIOUS
  <2> HIDE DEF order
  <2> QED BY <2>1, <2>2, <2>3, <2>4 DEF WalkInv
<1> QED BY <1>1, <1>2, <1>3 DEF AlarmsInv

(* One lemma for each action: it keeps the invariant.                      *)
LEMMA StartAlarmKeeps ==
  ASSUME OwnAlarmsInTime, AlarmsInv, StartAlarm
  PROVE  AlarmsInv'
<1>0. AlarmsTypeOK /\ Unlinked /\ WalkInv
  BY DEF AlarmsInv
<1>1. PICK n \in Nat : \E order \in [1 .. n -> registered] : \E p \in 1 .. n + 1 :
                         Linked(n, order) /\ Walk(n, order, p)
  BY <1>0 DEF WalkInv
<1>2. PICK order \in [1 .. n -> registered] : \E p \in 1 .. n + 1 :
                         Linked(n, order) /\ Walk(n, order, p)
  BY <1>1
<1>3. PICK p \in 1 .. n + 1 : Linked(n, order) /\ Walk(n, order, p)
  BY <1>2
<1>4. /\ pc \in {"idle", "callback"}
      /\ UNCHANGED <<alt_nticks, pc, alarm, following>>
  BY DEF StartAlarm
<1>5. PICK a \in Alarm \ registered, delay \in Delays :
        (pc = "callback" => a # alarm) /\ Start(a, delay)
  BY DEF StartAlarm
<1> DEFINE at == (delay + alt_nticks + 1) % Ticks
           longer == Longer(n, order, a)
<1>6. /\ time' = [time EXCEPT ![a] = at]
      /\ rollover' = [rollover EXCEPT ![a] = at < alt_nticks]
      /\ alt_llist_insert(a) /\ registered' = registered \cup {a}
      /\ left' = [left EXCEPT ![a] = delay + 1]
  BY <1>5 DEF Start
<1>7. delay + 1 \in 1 .. Ticks - 1
  BY <1>5, AlarmsAssumption DEF OwnAlarmsInTime
<1>8. /\ Linked(n + 1, longer)'
      /\ next' \in [Entry -> Entry \cup {Null}] /\ previous' \in [Entry -> Entry \cup {Null}]
      /\ \A x \in Alarm \ registered' : next'[x] = next[x] /\ previous'[x] = previous[x]
      /\ \A k \in 1 .. n + 1 : Place(n + 1, longer, k + 1) = Place(n, order, k)
  BY <1>0, <1>3, <1>6, InsertLinks
<1>9. InTime(a)' /\ time'[a] \in 0 .. Ticks - 1
  <2>1. delay + alt_nticks + 1 = alt_nticks + (delay + 1)
    BY <1>0, <1>5, AlarmsAssumption DEF AlarmsTypeOK
  <2>2. /\ time'[a] = (alt_nticks + (delay + 1)) % Ticks
        /\ rollover'[a] = ((alt_nticks + (delay + 1)) % Ticks < alt_nticks)
        /\ left'[a] = delay + 1
    BY <1>0, <1>6, <2>1 DEF AlarmsTypeOK
  <2> QED BY <1>0, <1>4, <1>7, <2>2, SetInTime
<1>10. AlarmsTypeOK'
  <2>1. left' \in [Alarm -> 0 .. Ticks]
    <3>1. delay + 1 \in 0 .. Ticks
      BY <1>7, AlarmsAssumption
    <3> QED BY <1>0, <1>6, <3>1 DEF AlarmsTypeOK
  <2>2. at \in 0 .. Ticks - 1
    BY <1>0, <1>6, <1>9 DEF AlarmsTypeOK
  <2>3. time' \in [Alarm -> 0 .. Ticks - 1] /\ rollover' \in [Alarm -> BOOLEAN]
    <3> HIDE DEF at
    <3> QED BY <1>0, <1>6, <2>2 DEF AlarmsTypeOK
  <2> QED BY <1>0, <1>4, <1>6, <1>8, <2>1, <2>3 DEF AlarmsTypeOK
<1>11. Unlinked'
  BY <1>0, <1>6, <1>8 DEF Unlinked
<1>12. ASSUME NEW b \in registered
       PROVE  /\ InTime(b) => InTime(b)'
              /\ ToVisit(b) => ToVisit(b)'
              /\ Called(b) => Called(b)'
  <2>1. b \in Alarm /\ b # a
    BY <1>0 DEF AlarmsTypeOK
  <2>2. time'[b] = time[b] /\ rollover'[b] = rollover[b] /\ left'[b] = left[b]
    BY <1>0, <1>6, <2>1 DEF AlarmsTypeOK
  <2> QED BY <1>4, <2>2 DEF InTime, ToVisit, Called
<1>13. Walk(n + 1, longer, p + 1)'
  <2>1. /\ p \in 1 .. n + 1 /\ p + 1 \in 1 .. n + 1 + 1 /\ n \in Nat /\ p + 1 > 1
        /\ (p + 1) - 1 = p
    BY <1>1, <1>3
  <2>2. Place(n + 1, longer, p + 1) = Place(n, order, p)
    BY <1>8, <2>1
  <2>3. CASE pc = "idle"
    <3>1. \A b \in registered : InTime(b)
      BY <1>3, <2>3 DEF Walk
    <3>2. \A b \in registered' : InTime(b)'
      BY <1>6, <1>9, <1>12, <3>1
    <3> QED BY <1>4, <2>1, <2>3, <3>2 DEF Walk
  <2>4. CASE pc = "callback"
    <3>1. /\ alarm \in Alarm /\ following = Place(n, order, p)
          /\ alarm \in registered => p > 1 /\ order[p - 1] = alarm /\ Called(alarm)
          /\ \A k \in 1 .. n :
               IF k < p THEN order[k] # alarm => InTime(order[k]) ELSE ToVisit(order[k])
      BY <1>3, <2>4 DEF Walk
    <3>2. ASSUME alarm' \in registered'
          PROVE  p + 1 > 1 /\ longer[p + 1 - 1] = alarm' /\ Called(alarm)'
      <4>1. alarm' = alarm /\ alarm \in registered
        BY <1>4, <1>5, <1>6, <2>4, <3>2
      <4>2. p \in 1 .. n + 1 /\ p # 1 /\ order[p - 1] = alarm
        BY <1>3, <2>1, <3>1, <4>1
      <4>3. longer[p] = order[p - 1]
        BY <4>2 DEF Longer
      <4>4. Called(alarm)'
        BY <1>4, <1>12, <3>1, <4>1 DEF Called
      <4> QED BY <2>1, <4>1, <4>2, <4>3, <4>4
    <3>3. ASSUME NEW k \in 1 .. n + 1
          PROVE  IF k < p + 1 THEN longer[k] # alarm' => InTime(longer[k])'
                              ELSE ToVisit(longer[k])'
      <4>1. CASE k = 1
        <5>1. longer[k] = a /\ k < p + 1
          BY <2>1, <4>1 DEF Longer
        <5> QED BY <1>9, <5>1
      <4>2. CASE k # 1
        <5>1. k - 1 \in 1 .. n /\ longer[k] = order[k - 1] /\ (k < p + 1 <=> k - 1 < p)
          BY <2>1, <4>2 DEF Longer
        <5>2. order[k - 1] \in registered
          BY <1>2, <5>1
        <5> QED BY <1>4, <1>12, <3>1, <5>1, <5>2
      <4> QED BY <4>1, <4>2
    <3> HIDE DEF longer
    <3>4. following' = Place(n + 1, longer, p + 1) /\ alarm' \in Alarm
          /\ pc' = "callback"
      BY <1>4, <2>2, <2>4, <3>1
    <3> QED BY <2>1, <3>2, <3>3, <3>4 DEF Walk
  <2> QED BY <1>4, <2>3, <2>4
<1>14. WalkInv'
  <2>1. n + 1 \in Nat /\ longer \in [1 .. n + 1 -> registered']
    BY <1>8 DEF Linked
  <2>2. p + 1 \in 1 .. (n + 1) + 1
    BY <1>1, <1>3
  <2> HIDE DEF longer
  <2> QED BY <1>8, <1>13, <2>1, <2>2 DEF WalkInv
<1> QED BY <1>10, <1>11, <1>14 DEF AlarmsInv

(* What a stop leaves behind, whether the alarm was in the list or not.    *)
LEMMA StopRight ==
  ASSUME AlarmsTypeOK, Unlinked, NEW n, NEW order, Linked(n, order),
         NEW a \in Alarm, Stop(a), alt_nticks' = alt_nticks
  PROVE  /\ Unlinked'
         /\ next' \in [Entry -> Entry \cup {Null}]
         /\ previous' \in [Entry -> Entry \cup {Null}]
         /\ time' = time /\ rollover' = rollover
         /\ left' \in [Alarm -> 0 .. Ticks] /\ registered' = registered \ {a}
         /\ \A b \in registered \ {a} : /\ InTime(b) => InTime(b)'
                                        /\ ToVisit(b) => ToVisit(b)'
                                        /\ Called(b) => Called(b)'
         /\ a \notin registered => Linked(n, order)'
         /\ \A k \in 1 .. n : order[k] = a =>
              /\ Linked(n - 1, Shorter(n, order, k))'
              /\ \A m \in 0 .. n : Place(n - 1, Shorter(n, order, k), m)
                                     = IF m < k THEN Place(n, order, m) ELSE Place(n, order, m + 1)
<1>1. /\ alt_llist_remove(a) /\ registered' = registered \ {a}
      /\ left' = [left EXCEPT ![a] = 0] /\ time' = time /\ rollover' = rollover
  BY DEF Stop
<1>2. left' \in [Alarm -> 0 .. Ticks]
  BY <1>1, AlarmsAssumption DEF AlarmsTypeOK
<1>3. ASSUME NEW b \in registered \ {a}
      PROVE  /\ InTime(b) => InTime(b)'
             /\ ToVisit(b) => ToVisit(b)'
             /\ Called(b) => Called(b)'
  <2>1. b \in Alarm /\ left'[b] = left[b]
    BY <1>1 DEF AlarmsTypeOK
  <2> QED BY <1>1, <2>1, TimesStay
<1>4. CASE a \notin registered
  <2>1. next' = next /\ previous' = previous /\ registered' = registered
    BY <1>4, StopUnlinked
  <2>2. \A k \in 1 .. n : order[k] # a
    BY <1>4 DEF Linked
  <2>3. Linked(n, order)'
    BY <2>1, LinksStay
  <2>4. Unlinked'
    BY <2>1 DEF Unlinked
  <2> QED BY <1>1, <1>2, <1>3, <1>4, <2>1, <2>2, <2>3, <2>4 DEF AlarmsTypeOK
<1>5. CASE a \in registered
  <2>1. ASSUME NEW k \in 1 .. n, order[k] = a
        PROVE  /\ Linked(n - 1, Shorter(n, order, k))'
               /\ next' \in [Entry -> Entry \cup {Null}]
               /\ previous' \in [Entry -> Entry \cup {Null}]
               /\ next'[a] = a /\ previous'[a] = a
               /\ \A x \in Alarm \ registered : next'[x] = next[x] /\ previous'[x] = previous[x]
               /\ \A m \in 0 .. n : Place(n - 1, Shorter(n, order, k), m)
                    = IF m < k THEN Place(n, order, m) ELSE Place(n, order, m + 1)
    <3>1. alt_llist_remove(order[k]) /\ registered' = registered \ {order[k]}
      BY <1>1, <2>1
    <3> QED BY <2>1, <3>1, RemoveLinks
  <2>2. PICK k \in 1 .. n : order[k] = a
    BY <1>5 DEF Linked
  <2>3. Unlinked'
    BY <1>1, <2>1, <2>2 DEF Unlinked
  <2> QED BY <1>1, <1>2, <1>3, <1>5, <2>1, <2>2, <2>3
<1> QED BY <1>4, <1>5

(* While the program runs, whichever alarm is stopped.                     *)
LEMMA StopIdleKeeps ==
  ASSUME AlarmsInv, NEW a \in Alarm, Stop(a), pc = "idle",
         UNCHANGED <<alt_nticks, pc, alarm, following>>
  PROVE  AlarmsInv'
<1>0. AlarmsTypeOK /\ Unlinked /\ WalkInv
  BY DEF AlarmsInv
<1>1. PICK n \in Nat : \E order \in [1 .. n -> registered] : \E p \in 1 .. n + 1 :
                         Linked(n, order) /\ Walk(n, order, p)
  BY <1>0 DEF WalkInv
<1>2. PICK order \in [1 .. n -> registered] : \E p \in 1 .. n + 1 :
                         Linked(n, order) /\ Walk(n, order, p)
  BY <1>1
<1>3. PICK p \in 1 .. n + 1 : Linked(n, order) /\ Walk(n, order, p)
  BY <1>2
<1>4. /\ Unlinked'
      /\ next' \in [Entry -> Entry \cup {Null}] /\ previous' \in [Entry -> Entry \cup {Null}]
      /\ time' = time /\ rollover' = rollover
      /\ left' \in [Alarm -> 0 .. Ticks] /\ registered' = registered \ {a}
      /\ \A b \in registered \ {a} : InTime(b) => InTime(b)'
      /\ a \notin registered => Linked(n, order)'
      /\ \A k \in 1 .. n : order[k] = a => Linked(n - 1, Shorter(n, order, k))'
  BY <1>0, <1>3, StopRight
<1>5. AlarmsTypeOK'
  BY <1>0, <1>4 DEF AlarmsTypeOK
<1>6. \A b \in registered' : InTime(b)'
  BY <1>3, <1>4 DEF Walk
<1>7. CASE a \notin registered
  <2>1. Walk(n, order, p)'
    BY <1>3, <1>6 DEF Walk
  <2>2. Linked(n, order)' /\ order \in [1 .. n -> registered']
    BY <1>4, <1>7 DEF Linked
  <2> QED BY <1>4, <1>5, <2>1, <2>2 DEF AlarmsInv, WalkInv
<1>8. CASE a \in registered
  <2>1. PICK k \in 1 .. n : order[k] = a
    BY <1>3, <1>8 DEF Linked
  <2>2. n - 1 \in Nat /\ 1 \in 1 .. (n - 1) + 1
    BY <2>1
  <2> DEFINE shorter == Shorter(n, order, k)
  <2>3. Linked(n - 1, shorter)'
    BY <1>4, <2>1
  <2> HIDE DEF shorter
  <2>4. Walk(n - 1, shorter, 1)'
    BY <1>6, <2>2 DEF Walk
  <2>5. shorter \in [1 .. n - 1 -> registered']
    BY <2>3 DEF Linked
  <2> QED BY <1>4, <1>5, <2>2, <2>3, <2>4, <2>5 DEF AlarmsInv, WalkInv
<1> QED BY <1>7, <1>8

(* A callback stops its own alarm: what is left of the list moves up.      *)
LEMMA StopOwnWalk ==
  ASSUME AlarmsTypeOK, Unlinked, NEW n \in Nat, NEW order \in [1 .. n -> registered],
         NEW p \in 1 .. n + 1, Linked(n, order), Walk(n, order, p),
         pc = "callback", Stop(alarm), alt_nticks' = alt_nticks
  PROVE  \E m \in Nat : \E rest \in [1 .. m -> registered'] : \E q \in 1 .. m + 1 :
           /\ Linked(m, rest)' /\ following = Place(m, rest, q)
           /\ \A k \in 1 .. m : IF k < q THEN InTime(rest[k])' ELSE ToVisit(rest[k])'
<1>1. /\ alarm \in Alarm /\ following = Place(n, order, p)
      /\ alarm \in registered => p > 1 /\ order[p - 1] = alarm /\ Called(alarm)
      /\ \A k \in 1 .. n :
           IF k < p THEN order[k] # alarm => InTime(order[k]) ELSE ToVisit(order[k])
  BY DEF Walk
<1>2. /\ registered' = registered \ {alarm}
      /\ \A b \in registered \ {alarm} : /\ InTime(b) => InTime(b)'
                                         /\ ToVisit(b) => ToVisit(b)'
      /\ alarm \notin registered => Linked(n, order)'
      /\ \A k \in 1 .. n : order[k] = alarm =>
           /\ Linked(n - 1, Shorter(n, order, k))'
           /\ \A m \in 0 .. n : Place(n - 1, Shorter(n, order, k), m)
                = IF m < k THEN Place(n, order, m) ELSE Place(n, order, m + 1)
  BY <1>1, StopRight
<1>3. CASE alarm \notin registered
  <2>1. ASSUME NEW k \in 1 .. n
        PROVE  IF k < p THEN InTime(order[k])' ELSE ToVisit(order[k])'
    <3>1. order[k] \in registered \ {alarm}
      BY <1>3
    <3> QED BY <1>1, <1>2, <3>1
  <2>2. Linked(n, order)' /\ order \in [1 .. n -> registered']
    BY <1>2, <1>3
  <2> QED BY <1>1, <2>1, <2>2
<1>4. CASE alarm \in registered
  <2> DEFINE shorter == Shorter(n, order, p - 1)
  <2>1. /\ p - 1 \in 1 .. n /\ n - 1 \in Nat /\ p - 1 \in 1 .. (n - 1) + 1
        /\ p - 1 \in 0 .. n /\ ~(p - 1 < p - 1) /\ (p - 1) + 1 = p
        /\ order[p - 1] = alarm
    BY <1>1, <1>4
  <2>2. Linked(n - 1, shorter)' /\ following = Place(n - 1, shorter, p - 1)
    BY <1>1, <1>2, <2>1
  <2>3. ASSUME NEW k \in 1 .. n - 1
        PROVE  IF k < p - 1 THEN InTime(shorter[k])' ELSE ToVisit(shorter[k])'
    <3>0. \A i, j \in 1 .. n : order[i] = order[j] => i = j
      BY DEF Linked
    <3>1. CASE k < p - 1
      <4>1. k \in 1 .. n /\ k < p /\ k # p - 1 /\ shorter[k] = order[k]
        BY <2>1, <3>1 DEF Shorter
      <4>2. order[k] # alarm /\ order[k] \in registered
        BY <2>1, <3>0, <4>1
      <4> QED BY <1>1, <1>2, <3>1, <4>1, <4>2
    <3>2. CASE ~(k < p - 1)
      <4>1. k + 1 \in 1 .. n /\ ~(k + 1 < p) /\ k + 1 # p - 1 /\ shorter[k] = order[k + 1]
        BY <2>1, <3>2 DEF Shorter
      <4>2. order[k + 1] # alarm /\ order[k + 1] \in registered
        BY <2>1, <3>0, <4>1
      <4> QED BY <1>1, <1>2, <3>2, <4>1, <4>2
    <3> QED BY <3>1, <3>2
  <2> HIDE DEF shorter
  <2>4. shorter \in [1 .. n - 1 -> registered']
    BY <2>2 DEF Linked
  <2> QED BY <2>1, <2>2, <2>3, <2>4
<1> QED BY <1>3, <1>4

(* Then alt_tick() goes on, or the callback does.                          *)
LEMMA StopOwnKeeps ==
  ASSUME AlarmsInv, pc = "callback", Stop(alarm),
         UNCHANGED <<alt_nticks, following>>,
         \/ UNCHANGED <<pc, alarm>>
         \/ pc' = "list" /\ alarm' = following
  PROVE  AlarmsInv'
<1>0. AlarmsTypeOK /\ Unlinked /\ WalkInv
  BY DEF AlarmsInv
<1>1. PICK n \in Nat : \E order \in [1 .. n -> registered] : \E p \in 1 .. n + 1 :
                         Linked(n, order) /\ Walk(n, order, p)
  BY <1>0 DEF WalkInv
<1>2. PICK order \in [1 .. n -> registered] : \E p \in 1 .. n + 1 :
                         Linked(n, order) /\ Walk(n, order, p)
  BY <1>1
<1>3. PICK p \in 1 .. n + 1 : Linked(n, order) /\ Walk(n, order, p)
  BY <1>2
<1>4. alarm \in Alarm
  BY <1>3 DEF Walk
<1>5. /\ Unlinked' /\ registered' = registered \ {alarm}
      /\ next' \in [Entry -> Entry \cup {Null}] /\ previous' \in [Entry -> Entry \cup {Null}]
      /\ time' = time /\ rollover' = rollover /\ left' \in [Alarm -> 0 .. Ticks]
  BY <1>0, <1>3, <1>4, StopRight
<1>6. AlarmsTypeOK'
  BY <1>0, <1>5 DEF AlarmsTypeOK
<1>7. PICK m \in Nat : \E rest \in [1 .. m -> registered'] : \E q \in 1 .. m + 1 :
        /\ Linked(m, rest)' /\ following = Place(m, rest, q)
        /\ \A k \in 1 .. m : IF k < q THEN InTime(rest[k])' ELSE ToVisit(rest[k])'
  BY <1>0, <1>3, StopOwnWalk
<1>8. PICK rest \in [1 .. m -> registered'] : \E q \in 1 .. m + 1 :
        /\ Linked(m, rest)' /\ following = Place(m, rest, q)
        /\ \A k \in 1 .. m : IF k < q THEN InTime(rest[k])' ELSE ToVisit(rest[k])'
  BY <1>7
<1>9. PICK q \in 1 .. m + 1 :
        /\ Linked(m, rest)' /\ following = Place(m, rest, q)
        /\ \A k \in 1 .. m : IF k < q THEN InTime(rest[k])' ELSE ToVisit(rest[k])'
  BY <1>8
<1>10. Walk(m, rest, q)'
  BY <1>4, <1>5, <1>9 DEF Walk
<1>11. WalkInv'
  BY <1>9, <1>10 DEF WalkInv
<1> QED BY <1>5, <1>6, <1>11 DEF AlarmsInv

LEMMA StopAlarmKeeps ==
  ASSUME OwnAlarmsInTime, AlarmsInv, StopAlarm
  PROVE  AlarmsInv'
<1>1. PICK a \in Alarm : /\ pc = "idle" \/ (pc = "callback" /\ (a = alarm \/ StopsOthers))
                         /\ Stop(a)
  BY DEF StopAlarm
<1>2. UNCHANGED <<alt_nticks, pc, alarm, following>>
  BY DEF StopAlarm
<1>3. CASE pc = "idle"
  BY <1>1, <1>2, <1>3, StopIdleKeeps
<1>4. CASE pc = "callback" /\ a = alarm
  BY <1>1, <1>2, <1>4, StopOwnKeeps
<1> QED BY <1>1, <1>3, <1>4 DEF OwnAlarmsInTime

LEMMA DeactivateKeeps ==
  ASSUME AlarmsInv, Deactivate
  PROVE  AlarmsInv'
  BY StopOwnKeeps DEF Deactivate

LEMMA TickKeeps ==
  ASSUME AlarmsInv, Tick
  PROVE  AlarmsInv'
<1>0. AlarmsTypeOK /\ Unlinked /\ WalkInv
  BY DEF AlarmsInv
<1>1. PICK n \in Nat : \E order \in [1 .. n -> registered] : \E p \in 1 .. n + 1 :
                         Linked(n, order) /\ Walk(n, order, p)
  BY <1>0 DEF WalkInv
<1>2. PICK order \in [1 .. n -> registered] : \E p \in 1 .. n + 1 :
                         Linked(n, order) /\ Walk(n, order, p)
  BY <1>1
<1>3. PICK p \in 1 .. n + 1 : Linked(n, order) /\ Walk(n, order, p)
  BY <1>2
<1>4. /\ pc = "idle" /\ pc' = "list" /\ alt_nticks' = (alt_nticks + 1) % Ticks
      /\ alarm' = next[alt_alarm_list]
      /\ left' = [a \in Alarm |-> IF a \in registered THEN left[a] - 1 ELSE left[a]]
      /\ UNCHANGED <<next, previous, time, rollover, following, registered>>
  BY DEF Tick
<1>5. ASSUME NEW a \in registered
      PROVE  ToVisit(a)' /\ left'[a] \in 0 .. Ticks
  <2>1. a \in Alarm /\ InTime(a) /\ left'[a] = left[a] - 1
    BY <1>0, <1>3, <1>4 DEF AlarmsTypeOK, Walk
  <2>2. left[a] \in 1 .. Ticks - 1
    BY <2>1 DEF InTime
  <2>3. left'[a] \in 0 .. Ticks
    BY <2>1, <2>2, AlarmsAssumption
  <2>4. ToVisit(a)'
    BY <1>0, <1>4, <2>1, TickNearer
  <2> QED BY <2>3, <2>4
<1>6. alt_nticks' \in 0 .. Ticks - 1
  <2>1. alt_nticks \in 0 .. Ticks - 1 /\ Ticks \in Nat \ {0}
    BY <1>0, AlarmsAssumption DEF AlarmsTypeOK
  <2> QED BY <1>4, <2>1
<1>7. Place(n, order, 1) = alarm' /\ alarm' \in Entry
  <2>1. 0 \in 0 .. n /\ 0 + 1 = 1 /\ 1 \in 0 .. n + 1
    OBVIOUS
  <2>2. Place(n, order, 0) = alt_alarm_list
    BY DEF Place
  <2>3. Place(n, order, 1) = alarm'
    BY <1>3, <1>4, <2>1, <2>2 DEF Linked
  <2>4. Place(n, order, 1) \in registered \cup {alt_alarm_list}
    BY <1>0, <1>3, <2>1, PlacesDiffer
  <2> QED BY <1>0, <2>3, <2>4 DEF AlarmsTypeOK, Entry
<1>8. left' \in [Alarm -> 0 .. Ticks]
  <2>1. \A a \in Alarm : left'[a] \in 0 .. Ticks
    BY <1>0, <1>4, <1>5 DEF AlarmsTypeOK
  <2> QED BY <1>4, <2>1
<1>9. AlarmsTypeOK' /\ Unlinked'
  BY <1>0, <1>4, <1>6, <1>7, <1>8 DEF AlarmsTypeOK, Unlinked
<1>10. Walk(n, order, 1)'
  <2>1. 1 \in 1 .. n + 1 /\ \A k \in 1 .. n : ~(k < 1) /\ order[k] \in registered
    OBVIOUS
  <2> QED BY <1>4, <1>5, <1>7, <2>1 DEF Walk
<1>11. Linked(n, order)'
  BY <1>3, <1>4, LinksStay
<1>12. WalkInv'
  <2>1. 1 \in 1 .. n + 1 /\ order \in [1 .. n -> registered']
    BY <1>4
  <2> QED BY <1>10, <1>11, <2>1 DEF WalkInv
<1> QED BY <1>9, <1>12 DEF AlarmsInv

LEMMA VisitKeeps ==
  ASSUME AlarmsInv, Visit
  PROVE  AlarmsInv' /\ (pc' = "callback" => alarm \in registered /\ left[alarm] = 0)
<1>0. AlarmsTypeOK /\ Unlinked /\ WalkInv
  BY DEF AlarmsInv
<1>1. PICK n \in Nat : \E order \in [1 .. n -> registered] : \E p \in 1 .. n + 1 :
                         Linked(n, order) /\ Walk(n, order, p)
  BY <1>0 DEF WalkInv
<1>2. PICK order \in [1 .. n -> registered] : \E p \in 1 .. n + 1 :
                         Linked(n, order) /\ Walk(n, order, p)
  BY <1>1
<1>3. PICK p \in 1 .. n + 1 : Linked(n, order) /\ Walk(n, order, p)
  BY <1>2
<1> DEFINE up == rollover[alarm] /\ alt_nticks # 0
           due == time[alarm] <= alt_nticks /\ ~up
<1>4. /\ pc = "list" /\ alarm # alt_alarm_list /\ following' = next[alarm]
      /\ rollover' = [rollover EXCEPT ![alarm] = up]
      /\ IF time[alarm] <= alt_nticks /\ ~rollover'[alarm]
         THEN pc' = "callback" /\ UNCHANGED alarm
         ELSE alarm' = next[alarm] /\ UNCHANGED pc
      /\ UNCHANGED <<alt_nticks, next, previous, time, registered, left>>
  BY DEF Visit
<1>5. /\ alarm = Place(n, order, p)
      /\ \A k \in 1 .. n : IF k < p THEN InTime(order[k]) ELSE ToVisit(order[k])
  BY <1>3, <1>4 DEF Walk
<1>6. /\ p \in 1 .. n /\ p + 1 \in 1 .. n + 1 /\ p \in 0 .. n /\ p + 1 \in 0 .. n + 1
      /\ p + 1 > 1 /\ (p + 1) - 1 = p /\ ~(p < p)
      /\ order[p] = alarm /\ alarm \in registered
  <2>1. p \in 1 .. n
    BY <1>4, <1>5 DEF Place
  <2> QED BY <1>1, <1>5, <2>1 DEF Place
<1>7. alarm \in Alarm /\ ToVisit(alarm)
  BY <1>0, <1>5, <1>6 DEF AlarmsTypeOK
<1>8. next[alarm] = Place(n, order, p + 1) /\ next[alarm] \in Entry
  <2>1. next[Place(n, order, p)] = Place(n, order, p + 1)
    BY <1>3, <1>6 DEF Linked
  <2>2. Place(n, order, p + 1) \in registered \cup {alt_alarm_list}
    BY <1>0, <1>3, <1>6, PlacesDiffer
  <2> QED BY <1>0, <1>5, <2>1, <2>2 DEF AlarmsTypeOK, Entry
<1>9. /\ due => left[alarm] = 0 /\ time[alarm] = alt_nticks
      /\ ~due => left[alarm] \in 1 .. Ticks - 1 /\ (up <=> alt_nticks + left[alarm] >= Ticks)
  BY <1>0, <1>7, DueIsKnown
<1>10. /\ rollover'[alarm] = up /\ \A b \in Alarm \ {alarm} : rollover'[b] = rollover[b]
       /\ rollover' \in [Alarm -> BOOLEAN]
  <2>1. up \in BOOLEAN /\ rollover \in [Alarm -> BOOLEAN]
    BY <1>0, <1>7 DEF AlarmsTypeOK
  <2> HIDE DEF up
  <2> QED BY <1>4, <1>7, <2>1
<1>11. AlarmsTypeOK' /\ Unlinked'
  BY <1>0, <1>4, <1>8, <1>10 DEF AlarmsTypeOK, Unlinked
<1>12. ASSUME NEW k \in 1 .. n, k # p
       PROVE  order[k] # alarm /\ IF k < p THEN InTime(order[k])' ELSE ToVisit(order[k])'
  <2>1. order[k] \in Alarm /\ order[k] # alarm
    BY <1>0, <1>3, <1>6, <1>12 DEF AlarmsTypeOK, Linked
  <2>2. rollover'[order[k]] = rollover[order[k]]
    BY <1>10, <2>1
  <2>3. InTime(order[k]) => InTime(order[k])'
    BY <1>4, <2>2 DEF InTime
  <2>4. ToVisit(order[k]) => ToVisit(order[k])'
    BY <1>4, <2>2 DEF ToVisit
  <2> QED BY <1>5, <2>1, <2>3, <2>4
<1>13. ASSUME due
       PROVE  /\ Walk(n, order, p + 1)'
              /\ pc' = "callback" => alarm \in registered /\ left[alarm] = 0
  <2>1. pc' = "callback" /\ alarm' = alarm /\ following' = Place(n, order, p + 1)
    BY <1>4, <1>8, <1>10, <1>13
  <2>2. Called(alarm)'
    BY <1>4, <1>9, <1>10, <1>13, <2>1 DEF Called
  <2>3. ASSUME NEW k \in 1 .. n
        PROVE  IF k < p + 1 THEN order[k] # alarm' => InTime(order[k])' ELSE ToVisit(order[k])'
    <3>1. k = p \/ (k # p /\ (k < p + 1 <=> k < p))
      BY <1>6
    <3>2. k = p => k < p + 1
      BY <1>6
    <3> QED BY <1>6, <1>12, <2>1, <3>1, <3>2
  <2>4. Walk(n, order, p + 1)'
    BY <1>4, <1>6, <1>7, <2>1, <2>2, <2>3 DEF Walk
  <2>5. left[alarm] = 0
    BY <1>9, <1>13
  <2> QED BY <1>6, <2>4, <2>5
<1>14. ASSUME ~due
       PROVE  /\ Walk(n, order, p + 1)'
              /\ pc' = "callback" => alarm \in registered /\ left[alarm] = 0
  <2>1. pc' = "list" /\ alarm' = Place(n, order, p + 1)
    BY <1>4, <1>8, <1>10, <1>14
  <2>2. InTime(order[p])'
    <3>1. /\ left[alarm] \in 1 .. Ticks - 1 /\ (up <=> alt_nticks + left[alarm] >= Ticks)
          /\ time[alarm] = (alt_nticks + left[alarm]) % Ticks
      BY <1>7, <1>9, <1>14 DEF ToVisit
    <3>2. /\ left'[order[p]] \in 1 .. Ticks - 1
          /\ time'[order[p]] = (alt_nticks' + left'[order[p]]) % Ticks
          /\ rollover'[order[p]] <=> alt_nticks' + left'[order[p]] >= Ticks
      BY <1>4, <1>6, <1>10, <3>1
    <3> QED BY <3>2 DEF InTime
  <2>3. ASSUME NEW k \in 1 .. n
        PROVE  IF k < p + 1 THEN InTime(order[k])' ELSE ToVisit(order[k])'
    <3>1. k = p \/ (k # p /\ (k < p + 1 <=> k < p))
      BY <1>6
    <3>2. k = p => k < p + 1
      BY <1>6
    <3> QED BY <1>12, <2>2, <3>1, <3>2
  <2>4. Walk(n, order, p + 1)'
    BY <1>6, <2>1, <2>3 DEF Walk
  <2>5. pc' # "callback"
    BY <2>1
  <2> QED BY <2>4, <2>5
<1>15. Walk(n, order, p + 1)' /\ (pc' = "callback" => alarm \in registered /\ left[alarm] = 0)
  BY <1>13, <1>14
<1>16. Linked(n, order)'
  BY <1>3, <1>4, LinksStay
<1>17. WalkInv'
  <2>1. order \in [1 .. n -> registered']
    BY <1>4
  <2> QED BY <1>6, <1>15, <1>16, <2>1 DEF WalkInv
<1> QED BY <1>11, <1>15, <1>17 DEF AlarmsInv

LEMMA RearmKeeps ==
  ASSUME AlarmsInv, Rearm
  PROVE  AlarmsInv'
<1>0. AlarmsTypeOK /\ Unlinked /\ WalkInv
  BY DEF AlarmsInv
<1>1. PICK n \in Nat : \E order \in [1 .. n -> registered] : \E p \in 1 .. n + 1 :
                         Linked(n, order) /\ Walk(n, order, p)
  BY <1>0 DEF WalkInv
<1>2. PICK order \in [1 .. n -> registered] : \E p \in 1 .. n + 1 :
                         Linked(n, order) /\ Walk(n, order, p)
  BY <1>1
<1>3. PICK p \in 1 .. n + 1 : Linked(n, order) /\ Walk(n, order, p)
  BY <1>2
<1>4. /\ pc = "callback" /\ pc' = "list" /\ alarm' = following
      /\ UNCHANGED <<alt_nticks, next, previous, following, registered>>
  BY DEF Rearm
<1>5. PICK d \in Periods \ {0} :
        /\ time' = [time EXCEPT ![alarm] = (time[alarm] + d) % Ticks]
        /\ rollover' = [rollover EXCEPT ![alarm] =
                          (time[alarm] + d) % Ticks < alt_nticks \/ rollover[alarm]]
        /\ left' = IF alarm \in registered THEN [left EXCEPT ![alarm] = d] ELSE left
  BY DEF Rearm
<1>6. /\ alarm \in Alarm /\ following = Place(n, order, p)
      /\ alarm \in registered => p > 1 /\ order[p - 1] = alarm /\ Called(alarm)
      /\ \A k \in 1 .. n :
           IF k < p THEN order[k] # alarm => InTime(order[k]) ELSE ToVisit(order[k])
  BY <1>3, <1>4 DEF Walk
<1>7. d \in 1 .. Ticks - 1 /\ Ticks \in Nat \ {0}
  BY AlarmsAssumption
<1>8. /\ time \in [Alarm -> 0 .. Ticks - 1] /\ rollover \in [Alarm -> BOOLEAN]
      /\ left \in [Alarm -> 0 .. Ticks]
  BY <1>0 DEF AlarmsTypeOK
<1> DEFINE at == (time[alarm] + d) % Ticks
           up == at < alt_nticks \/ rollover[alarm]
<1>9. at \in 0 .. Ticks - 1 /\ up \in BOOLEAN /\ d \in 0 .. Ticks
  BY <1>6, <1>7, <1>8
<1>10. /\ time' \in [Alarm -> 0 .. Ticks - 1] /\ rollover' \in [Alarm -> BOOLEAN]
       /\ left' \in [Alarm -> 0 .. Ticks]
       /\ time'[alarm] = at /\ rollover'[alarm] = up
       /\ \A b \in Alarm \ {alarm} :
            time'[b] = time[b] /\ rollover'[b] = rollover[b] /\ left'[b] = left[b]
       /\ alarm \in registered => left'[alarm] = d
  <2> HIDE DEF at, up
  <2>1. time' = [time EXCEPT ![alarm] = at] /\ rollover' = [rollover EXCEPT ![alarm] = up]
    BY <1>5 DEF at, up
  <2> QED BY <1>5, <1>6, <1>8, <1>9, <2>1
<1>11. AlarmsTypeOK' /\ Unlinked'
  <2>1. following \in Entry
    BY <1>0 DEF AlarmsTypeOK
  <2> QED BY <1>0, <1>4, <1>10, <2>1 DEF AlarmsTypeOK, Unlinked
<1>12. ASSUME NEW k \in 1 .. n, order[k] # alarm
       PROVE  IF k < p THEN InTime(order[k])' ELSE ToVisit(order[k])'
  <2>1. order[k] \in Alarm \ {alarm}
    BY <1>0, <1>12 DEF AlarmsTypeOK
  <2>2. /\ time'[order[k]] = time[order[k]] /\ rollover'[order[k]] = rollover[order[k]]
        /\ left'[order[k]] = left[order[k]]
    BY <1>10, <2>1
  <2>3. InTime(order[k]) => InTime(order[k])'
    BY <1>4, <2>2 DEF InTime
  <2>4. ToVisit(order[k]) => ToVisit(order[k])'
    BY <1>4, <2>2 DEF ToVisit
  <2> QED BY <1>6, <1>12, <2>3, <2>4
<1>13. ASSUME NEW k \in 1 .. n, order[k] = alarm
       PROVE  k < p /\ InTime(order[k])'
  <2>1. alarm \in registered /\ p > 1 /\ order[p - 1] = alarm /\ Called(alarm)
    BY <1>6, <1>13
  <2>2. p - 1 \in 1 .. n
    BY <2>1
  <2>3. k = p - 1
    BY <1>3, <1>13, <2>1, <2>2 DEF Linked
  <2>4. /\ time[alarm] = alt_nticks /\ ~rollover[alarm]
    BY <2>1 DEF Called
  <2>5. /\ time'[order[k]] = (alt_nticks + d) % Ticks /\ left'[order[k]] = d
        /\ rollover'[order[k]] = ((alt_nticks + d) % Ticks < alt_nticks)
        /\ alt_nticks' = alt_nticks
    BY <1>4, <1>10, <1>13, <2>1, <2>4
  <2>6. InTime(order[k])'
    BY <1>0, <1>6, <1>7, <1>13, <2>5, SetInTime
  <2> QED BY <2>2, <2>3, <2>6
<1>14. Walk(n, order, p)'
  <2>1. \A k \in 1 .. n : IF k < p THEN InTime(order[k])' ELSE ToVisit(order[k])'
    BY <1>12, <1>13
  <2> QED BY <1>3, <1>4, <1>6, <2>1 DEF Walk
<1>15. Linked(n, order)'
  BY <1>3, <1>4, LinksStay
<1>16. WalkInv'
  <2>1. order \in [1 .. n -> registered']
    BY <1>4
  <2> QED BY <1>14, <1>15, <2>1 DEF WalkInv
<1> QED BY <1>11, <1>16 DEF AlarmsInv

LEMMA TickedKeeps ==
  ASSUME AlarmsInv, Ticked
  PROVE  AlarmsInv'
<1>0. AlarmsTypeOK /\ Unlinked /\ WalkInv
  BY DEF AlarmsInv
<1>1. PICK n \in Nat : \E order \in [1 .. n -> registered] : \E p \in 1 .. n + 1 :
                         Linked(n, order) /\ Walk(n, order, p)
  BY <1>0 DEF WalkInv
<1>2. PICK order \in [1 .. n -> registered] : \E p \in 1 .. n + 1 :
                         Linked(n, order) /\ Walk(n, order, p)
  BY <1>1
<1>3. PICK p \in 1 .. n + 1 : Linked(n, order) /\ Walk(n, order, p)
  BY <1>2
<1>4. /\ pc = "list" /\ alarm = alt_alarm_list /\ pc' = "idle" /\ following' = alt_alarm_list
      /\ UNCHANGED <<alt_nticks, next, previous, time, rollover, alarm, registered, left>>
  BY DEF Ticked
<1>5. AlarmsTypeOK' /\ Unlinked'
  BY <1>0, <1>4 DEF AlarmsTypeOK, Unlinked, Entry
<1>6. p = n + 1
  <2>1. alarm = Place(n, order, p) /\ registered \subseteq Alarm
    BY <1>0, <1>3, <1>4 DEF Walk, AlarmsTypeOK
  <2>2. p \notin 1 .. n
    BY <1>4, <2>1, AlarmsAssumption DEF Place
  <2> QED BY <2>2
<1>7. ASSUME NEW a \in registered
      PROVE  InTime(a)'
  <2>1. PICK k \in 1 .. n : order[k] = a
    BY <1>3 DEF Linked
  <2>2. k < p
    BY <1>6
  <2>3. InTime(a)
    BY <1>3, <1>4, <2>1, <2>2 DEF Walk
  <2> QED BY <1>4, <2>3 DEF InTime
<1>8. Walk(n, order, p)'
  BY <1>4, <1>7 DEF Walk
<1>9. Linked(n, order)'
  BY <1>3, <1>4, LinksStay
<1>10. WalkInv'
  <2>1. order \in [1 .. n -> registered']
    BY <1>4
  <2> QED BY <1>8, <1>9, <2>1 DEF WalkInv
<1> QED BY <1>5, <1>10 DEF AlarmsInv

LEMMA AlarmsStutter ==
  ASSUME AlarmsInv, UNCHANGED alarmVars
  PROVE  AlarmsInv'
<1>1. UNCHANGED <<alt_nticks, next, previous, time, rollover, pc, alarm, following,
                  registered, left>>
  BY DEF alarmVars
<1>2. AlarmsTypeOK' /\ Unlinked'
  BY <1>1 DEF AlarmsInv, AlarmsTypeOK, Unlinked
<1>3. ASSUME NEW n, NEW order, NEW p, Linked(n, order), Walk(n, order, p)
      PROVE  Linked(n, order)' /\ Walk(n, order, p)'
  <2>1. Linked(n, order)'
    BY <1>1, <1>3, LinksStay
  <2>2. \A a : /\ InTime(a)' <=> InTime(a)
               /\ ToVisit(a)' <=> ToVisit(a)
    BY <1>1 DEF InTime, ToVisit
  <2>3. Called(alarm)' <=> Called(alarm)
    BY <1>1 DEF Called
  <2> QED BY <1>1, <1>3, <2>1, <2>2, <2>3 DEF Walk
<1>4. WalkInv'
  BY <1>1, <1>3 DEF AlarmsInv, WalkInv
<1> QED BY <1>2, <1>4 DEF AlarmsInv

(* An alarm is called only by a visit, and then it is due.                 *)
LEMMA AlarmsStepInv ==
  ASSUME OwnAlarmsInTime, AlarmsInv, [AlarmsNext]_alarmVars
  PROVE  /\ AlarmsInv'
         /\ pc = "list" /\ pc' = "callback" => alarm \in registered /\ left[alarm] = 0
<1>1. CASE StartAlarm
  <2>1. pc' = pc
    BY <1>1 DEF StartAlarm
  <2> QED BY <1>1, <2>1, StartAlarmKeeps
<1>2. CASE StopAlarm
  <2>1. pc' = pc
    BY <1>2 DEF StopAlarm
  <2> QED BY <1>2, <2>1, StopAlarmKeeps
<1>3. CASE Tick
  <2>1. pc' = "list"
    BY <1>3 DEF Tick
  <2> QED BY <1>3, <2>1, TickKeeps
<1>4. CASE Visit
  BY <1>4, VisitKeeps
<1>5. CASE Deactivate
  <2>1. pc' = "list"
    BY <1>5 DEF Deactivate
  <2> QED BY <1>5, <2>1, DeactivateKeeps
<1>6. CASE Rearm
  <2>1. pc' = "list"
    BY <1>6 DEF Rearm
  <2> QED BY <1>6, <2>1, RearmKeeps
<1>7. CASE Ticked
  <2>1. pc' = "idle"
    BY <1>7 DEF Ticked
  <2> QED BY <1>7, <2>1, TickedKeeps
<1>8. CASE UNCHANGED alarmVars
  <2>1. pc' = pc
    BY <1>8 DEF alarmVars
  <2> QED BY <1>8, <2>1, AlarmsStutter
<1> QED BY <1>1, <1>2, <1>3, <1>4, <1>5, <1>6, <1>7, <1>8 DEF AlarmsNext

(* The order of the invariant is the one that ListIntact asks for.         *)
LEMMA InvMeansRight == AlarmsInv => AlarmsRight
<1> SUFFICES ASSUME AlarmsInv PROVE AlarmsRight
  OBVIOUS
<1>0. AlarmsTypeOK /\ Unlinked /\ WalkInv
  BY DEF AlarmsInv
<1>1. PICK n \in Nat : \E order \in [1 .. n -> registered] : \E p \in 1 .. n + 1 :
                         Linked(n, order) /\ Walk(n, order, p)
  BY <1>0 DEF WalkInv
<1>2. PICK order \in [1 .. n -> registered] : \E p \in 1 .. n + 1 :
                         Linked(n, order) /\ Walk(n, order, p)
  BY <1>1
<1>3. PICK p \in 1 .. n + 1 : Linked(n, order) /\ Walk(n, order, p)
  BY <1>2
<1>4. /\ \A j, k \in 1 .. n : order[j] = order[k] => j = k
      /\ \A a \in registered : \E k \in 1 .. n : order[k] = a
      /\ \A k \in 0 .. n : /\ next[Place(n, order, k)] = Place(n, order, k + 1)
                           /\ previous[Place(n, order, k + 1)] = Place(n, order, k)
  BY <1>3 DEF Linked
<1>5. Cardinality(registered) = n
  <2>1. order \in Bijection(1 .. n, registered)
    BY <1>4 DEF Bijection, Injection, Surjection, IsInjective
  <2>2. ExistsBijection(1 .. n, registered)
    BY <2>1 DEF ExistsBijection
  <2> QED BY <2>2, FS_CountingElements
<1>6. ListIntact
  BY <1>4, <1>5 DEF ListIntact, Place
<1>7. TimesRight
  <2> SUFFICES ASSUME pc = "idle", NEW a \in registered
               PROVE  /\ left[a] > 0
                      /\ time[a] = (alt_nticks + left[a]) % Ticks
                      /\ rollover[a] <=> alt_nticks + left[a] >= Ticks
    BY DEF TimesRight
  <2>1. InTime(a)
    BY <1>3 DEF Walk
  <2>2. left[a] \in 1 .. Ticks - 1 /\ Ticks \in Nat
    BY <2>1, AlarmsAssumption DEF InTime
  <2> QED BY <2>1, <2>2 DEF InTime
<1> QED BY <1>0, <1>6, <1>7 DEF AlarmsRight

(* The list of alarms stays one, and the times and flags say when each is  *)
(* due, however often the counter of ticks wraps.                          *)
THEOREM AlarmsAlwaysRight ==
  OwnAlarmsInTime => (AlarmsSpec => []AlarmsRight)
<1> SUFFICES ASSUME OwnAlarmsInTime PROVE AlarmsSpec => []AlarmsRight
  OBVIOUS
<1>1. AlarmsInit => AlarmsInv
  BY AlarmsInitInv
<1>2. AlarmsInv /\ [AlarmsNext]_alarmVars => AlarmsInv'
  BY AlarmsStepInv
<1>3. AlarmsInv => AlarmsRight
  BY InvMeansRight
<1> QED BY <1>1, <1>2, <1>3, PTL DEF AlarmsSpec

(* alt_tick() calls an alarm only while it is registered, and on the tick  *)
(* that it has been set for.                                               *)
THEOREM AlarmsCalledOnTime ==
  OwnAlarmsInTime => (AlarmsSpec => CalledOnTime)
<1> SUFFICES ASSUME OwnAlarmsInTime PROVE AlarmsSpec => CalledOnTime
  OBVIOUS
<1>1. AlarmsInit => AlarmsInv
  BY AlarmsInitInv
<1>2. AlarmsInv /\ [AlarmsNext]_alarmVars => AlarmsInv'
  BY AlarmsStepInv
<1>3. AlarmsInv /\ [AlarmsNext]_alarmVars
        => [pc = "list" /\ pc' = "callback" => alarm \in registered /\ left[alarm] = 0]_alarmVars
  BY AlarmsStepInv
<1> QED BY <1>1, <1>2, <1>3, PTL DEF AlarmsSpec, CalledOnTime
-----------------------------------------------------------------------------
(* Time of day, delays, timestamps and the system clock.                   *)

(* The time of day: what settimeofday() noted is what was set less what    *)
(* had been counted, as far as its product told.                           *)
TickUs == ALT_US \div TickRate
Noted(n) == ((n * TickUs) % Word) % ALT_US
WallInv ==
  /\ WallTypeOK
  /\ origin \in [sec : Nat, usec : 0 .. ALT_US - 1, tick : 0 .. ticks]
  /\ alt_resettime = [sec  |-> origin.sec - (origin.tick % Word) \div TickRate,
                      usec |-> origin.usec - Noted(origin.tick % Word)]

LEMMA MoreMultiples ==
  ASSUME NEW n \in Nat \ {0}, NEW p \in Int, NEW q \in Int, p < q
  PROVE  n * p + n <= n * q
  OBVIOUS

(* A division's quotient and remainder are the only ones.                  *)
LEMMA Quotient ==
  ASSUME NEW n \in Nat, NEW m \in Nat \ {0}
  PROVE  /\ n \div m \in Nat /\ n % m \in 0 .. m - 1
         /\ n = m * (n \div m) + (n % m)
<1>1. PICK q \in Int : q = n \div m
  OBVIOUS
<1>2. PICK r \in 0 .. m - 1 : r = n % m
  OBVIOUS
<1>3. n = m * q + r
  BY <1>1, <1>2
<1>4. q >= 0
  <2> SUFFICES ASSUME q < 0 PROVE FALSE
    OBVIOUS
  <2>1. m * q + m <= m * 0
    BY MoreMultiples
  <2> QED BY <1>2, <1>3, <2>1
<1> QED BY <1>1, <1>2, <1>3, <1>4

LEMMA QuotientIs ==
  ASSUME NEW n \in Int, NEW m \in Nat \ {0}, NEW q \in Int, NEW r \in 0 .. m - 1,
         n = m * q + r
  PROVE  n \div m = q /\ n % m = r
<1>1. PICK p \in Int : p = n \div m
  OBVIOUS
<1>2. PICK s \in 0 .. m - 1 : s = n % m
  OBVIOUS
<1>3. n = m * p + s
  BY <1>1, <1>2
<1>4. ~ (p < q)
  <2> SUFFICES ASSUME p < q PROVE FALSE
    OBVIOUS
  <2>1. m * p + m <= m * q
    BY MoreMultiples
  <2> QED BY <1>2, <1>3, <2>1
<1>5. ~ (q < p)
  <2> SUFFICES ASSUME q < p PROVE FALSE
    OBVIOUS
  <2>1. m * q + m <= m * p
    BY MoreMultiples
  <2> QED BY <1>2, <1>3, <2>1
<1>6. p = q
  BY <1>4, <1>5
<1> QED BY <1>1, <1>2, <1>3, <1>6

LEMMA Distribute ==
  ASSUME NEW a \in Int, NEW b \in Int, NEW c \in Int, NEW d \in Int
  PROVE  (a * b + c) * d = (a * d) * b + c * d
  OBVIOUS

LEMMA WallConstants ==
  /\ ALT_US \in Nat \ {0} /\ TickRate \in Nat \ {0} /\ TickUs \in Nat \ {0}
  /\ ALT_US = TickRate * TickUs
  /\ Word \in Nat \ {0}
<1>1. /\ ALT_US \in Nat \ {0} /\ TickRate \in Nat \ {0}
      /\ Word \in Nat \ {0}
  BY ClocksAssumption DEF WallClockAssumption
<1>2. ALT_US % TickRate = 0
  BY ClocksAssumption
<1>3. TickUs \in Nat /\ ALT_US = TickRate * TickUs
  BY <1>1, <1>2, Quotient DEF TickUs
<1>4. TickUs # 0
  BY <1>1, <1>3
<1> QED BY <1>1, <1>3, <1>4

(* The microseconds that a tick begins at, in its second.                  *)
LEMMA TickInSecond ==
  ASSUME NEW t \in Nat
  PROVE  /\ (t * TickUs) % ALT_US = (t % TickRate) * TickUs
         /\ (t % TickRate) * TickUs \in 0 .. ALT_US - 1
         /\ t * TickUs = ALT_US * (t \div TickRate) + (t % TickRate) * TickUs
         /\ t \div TickRate \in Nat
<1> DEFINE q == t \div TickRate
           s == t % TickRate
<1>1. q \in Nat /\ s \in 0 .. TickRate - 1 /\ t = TickRate * q + s
  BY WallConstants, Quotient
<1>2. PICK x \in Nat, y \in Nat, u \in Nat \ {0} : x = q /\ y = s /\ u = TickUs
  BY <1>1, WallConstants
<1>3. u * y + u <= u * TickRate /\ u * y \in Nat
  BY <1>1, <1>2, WallConstants, MoreMultiples
<1>4. s * TickUs \in 0 .. ALT_US - 1
  BY <1>2, <1>3, WallConstants
<1>5. t * TickUs = (TickRate * x + y) * u
  BY <1>1, <1>2
<1>6. (TickRate * x + y) * u = (TickRate * u) * x + y * u
  <2>1. TickRate \in Int /\ x \in Int /\ y \in Int /\ u \in Int
    BY <1>2, WallConstants
  <2> QED BY <2>1, Distribute
<1>7. t * TickUs = ALT_US * q + s * TickUs
  BY <1>2, <1>5, <1>6, WallConstants
<1>8. (t * TickUs) % ALT_US = s * TickUs
  <2>1. PICK v \in Int, g \in 0 .. ALT_US - 1 : v = t * TickUs /\ g = s * TickUs
    BY <1>1, <1>4, WallConstants
  <2>2. PICK m \in Nat \ {0} : m = ALT_US
    BY WallConstants
  <2>3. v = m * q + g /\ g \in 0 .. m - 1 /\ q \in Int
    BY <1>1, <1>7, <2>1, <2>2
  <2>4. v % m = g
    BY <2>3, QuotientIs
  <2> QED BY <2>1, <2>2, <2>4
<1> QED BY <1>1, <1>4, <1>7, <1>8

(* What is noted is within a second, and exact while the product fits.     *)
LEMMA NotedIs ==
  ASSUME NEW n \in Nat
  PROVE  /\ Noted(n) \in 0 .. ALT_US - 1
         /\ n * TickUs < Word => Noted(n) = (n * TickUs) % ALT_US
<1>1. PICK p \in Nat : p = n * TickUs
  BY WallConstants
<1>2. p % Word \in Nat /\ (p < Word => p % Word = p)
  <2>1. p % Word \in 0 .. Word - 1
    BY WallConstants, Quotient
  <2>2. p < Word => p = Word * 0 + p /\ p \in 0 .. Word - 1
    BY WallConstants
  <2> QED BY <2>1, <2>2, WallConstants, QuotientIs
<1>3. (p % Word) % ALT_US \in 0 .. ALT_US - 1
  BY <1>2, WallConstants, Quotient
<1> QED BY <1>1, <1>2, <1>3 DEF Noted

(* The processor's count of ticks.                                         *)
LEMMA CountOfTicks ==
  ASSUME NEW n \in Nat
  PROVE  /\ n % Word \in Nat
         /\ n \div Word \in Nat /\ n = Word * (n \div Word) + (n % Word)
  BY WallConstants, Quotient

LEMMA WallInitInv == WallInit => WallInv
<1> SUFFICES ASSUME WallInit PROVE WallInv
  OBVIOUS
<1>1. 0 % Word = 0 /\ 0 \div TickRate = 0 /\ (0 * TickUs) % ALT_US = 0
  <2>1. 0 = Word * 0 + 0 /\ 0 = TickRate * 0 + 0 /\ 0 * TickUs = ALT_US * 0 + 0
    BY WallConstants
  <2> QED BY <2>1, WallConstants, QuotientIs
<1>2. Noted(0) = 0
  <2>1. 0 * TickUs < Word
    BY WallConstants
  <2> QED BY <1>1, <2>1, NotedIs
<1> QED BY <1>1, <1>2, WallConstants DEF WallInit, WallInv, WallTypeOK, Zero

(* What gettimeofday() answers: a normalised time, which is that since the *)
(* time was set but for what was noted wrong.                              *)
LEMMA NowIs ==
  ASSUME WallInv, alt_tick_rate > 0
  PROVE  /\ Now.sec \in Int /\ Now.usec \in 0 .. ALT_US - 1
         /\ ticks \div Word = origin.tick \div Word =>
              LET error == Microseconds(Now)
                    - (Microseconds(origin) + (ticks - origin.tick) * TickUs)
              IN  /\ error \in 1 - ALT_US .. ALT_US - 1
                  /\ (origin.tick % Word) * TickUs < Word => error = 0
<1> DEFINE o == origin.tick % Word
           n == ticks % Word
           a == (o % TickRate) * TickUs
           b == (n % TickRate) * TickUs
           w == Noted(o)
           p == o \div TickRate
           q == n \div TickRate
           sec == origin.sec - p + q
           usec == origin.usec - w + b
           total == origin.sec * ALT_US + origin.usec + (n - o) * TickUs
<1>1. /\ alt_tick_rate = TickRate /\ UsPerTick = TickUs
      /\ origin.tick \in Nat /\ ticks \in Nat /\ origin.tick <= ticks
      /\ o \in Nat /\ n \in Nat
      /\ origin.sec \in Nat /\ origin.usec \in 0 .. ALT_US - 1
  BY WallConstants, CountOfTicks DEF WallInv, WallTypeOK, UsPerTick, TickUs
<1>2. /\ a \in 0 .. ALT_US - 1 /\ b \in 0 .. ALT_US - 1 /\ p \in Nat /\ q \in Nat
      /\ o * TickUs = ALT_US * p + a /\ n * TickUs = ALT_US * q + b
      /\ (o * TickUs) % ALT_US = a /\ (n * TickUs) % ALT_US = b
  BY <1>1, TickInSecond
<1>3. w \in 0 .. ALT_US - 1 /\ (o * TickUs < Word => w = a)
  BY <1>1, <1>2, NotedIs
<1>4. Now = Normal(sec, usec)
  BY <1>1, <1>2 DEF Now, WallInv, wall_nticks
<1>5. sec \in Int /\ usec \in 1 - ALT_US .. 2 * ALT_US - 2 /\ total \in Int
  <2>1. PICK d \in Int : d = n - o
    BY <1>1
  <2>2. d * TickUs \in Int /\ origin.sec * ALT_US \in Nat
    BY <1>1, <2>1, WallConstants
  <2> QED BY <1>1, <1>2, <1>3, <2>1, <2>2, WallConstants
<1>6. sec * ALT_US + usec = total + (a - w)
  <2> HIDE DEF a, b, p, q, w, o, n
  <2>1. (n - o) * TickUs = ALT_US * q - ALT_US * p + b - a
    <3>1. PICK t \in Nat, v \in Nat, u \in Nat : t = n /\ v = o /\ u = TickUs
      BY <1>1, WallConstants
    <3>2. (t - v) * u = t * u - v * u
      OBVIOUS
    <3>3. PICK g \in Int, h \in Int : g = ALT_US * q /\ h = ALT_US * p
      BY <1>2, WallConstants
    <3> QED BY <1>2, <3>1, <3>2, <3>3
  <2>2. sec * ALT_US = origin.sec * ALT_US - ALT_US * p + ALT_US * q
    BY <1>1, <1>2, WallConstants
  <2>3. PICK g \in Int, h \in Int, k \in Int :
          g = ALT_US * q /\ h = ALT_US * p /\ k = origin.sec * ALT_US
    BY <1>1, <1>2, WallConstants
  <2> QED BY <1>1, <1>2, <1>3, <2>1, <2>2, <2>3
<1>7. PICK x \in Int, y \in Int, t \in Int, e \in Int, m \in Nat \ {0} :
        /\ x = sec /\ y = usec /\ t = total /\ e = a - w /\ m = ALT_US
        /\ x * m + y = t + e
        /\ y \in 1 - m .. 2 * m - 2 /\ e \in 1 - m .. m - 1
        /\ (o * TickUs < Word => e = 0)
  <2>1. /\ a - w \in Int /\ a - w \in 1 - ALT_US .. ALT_US - 1
        /\ (o * TickUs < Word => a - w = 0)
    BY <1>2, <1>3, WallConstants
  <2>2. usec \in Int /\ sec \in Int /\ total \in Int
    BY <1>5, WallConstants
  <2> HIDE DEF a, w, sec, usec, total
  <2> QED BY <1>5, <1>6, <2>1, <2>2, WallConstants
<1>8. Now = Normal(x, y)
  BY <1>4, <1>7
<1> HIDE DEF a, b, p, q, w, sec, usec
<1>9. /\ Now.sec \in Int /\ Now.usec \in 0 .. m - 1
      /\ Microseconds(Now) = t + e \/ (Microseconds(Now) = 0 /\ t + e < 0)
  <2>1. CASE y \in 0 .. m - 1
    <3>1. Now = [sec |-> x, usec |-> y]
      BY <1>7, <1>8, <2>1 DEF Normal
    <3> QED BY <1>7, <2>1, <3>1 DEF Microseconds
  <2>2. CASE y < 0 /\ x <= 0
    <3>1. y \notin 0 .. m - 1
      BY <1>7, <2>2
    <3>2. Now = Zero
      BY <1>7, <1>8, <2>2, <3>1 DEF Normal
    <3>3. x * m <= 0 /\ x * m \in Int
      BY <1>7, <2>2
    <3>4. PICK v \in Int : v = x * m
      BY <3>3
    <3>5. t + e < 0
      BY <1>7, <2>2, <3>3, <3>4
    <3> QED BY <1>7, <3>2, <3>5 DEF Zero, Microseconds
  <2>3. CASE y < 0 /\ x > 0
    <3>1. y \notin 0 .. m - 1 /\ ~ (y < 0 /\ x <= 0) /\ ~ (y >= m)
      BY <1>7, <2>3
    <3>2. Now = [sec |-> x - 1, usec |-> y + m]
      BY <1>7, <1>8, <2>3, <3>1 DEF Normal
    <3>3. (x - 1) * m + (y + m) = t + e
      BY <1>7
    <3> QED BY <1>7, <2>3, <3>2, <3>3 DEF Microseconds
  <2>4. CASE y >= m
    <3>1. ~ (y < 0) /\ y \notin 0 .. m - 1
      BY <1>7, <2>4
    <3>2. Now = [sec |-> x + 1, usec |-> y - m]
      BY <1>7, <1>8, <2>4, <3>1 DEF Normal
    <3>3. (x + 1) * m + (y - m) = t + e
      BY <1>7
    <3> QED BY <1>7, <2>4, <3>2, <3>3 DEF Microseconds
  <2> QED BY <1>7, <2>1, <2>2, <2>3, <2>4
<1>10. ASSUME ticks \div Word = origin.tick \div Word
       PROVE  /\ t = Microseconds(origin) + (ticks - origin.tick) * TickUs
              /\ t >= 0
  <2>1. ticks - origin.tick = n - o /\ n - o \in Nat
    <3>1. PICK c \in Nat : c = ticks \div Word /\ c = origin.tick \div Word
      BY <1>1, <1>10, CountOfTicks
    <3>2. ticks = Word * c + n /\ origin.tick = Word * c + o /\ Word * c \in Nat
      BY <1>1, <3>1, CountOfTicks, WallConstants
    <3>3. PICK k \in Nat : k = Word * c
      BY <3>2
    <3> HIDE DEF n, o
    <3> QED BY <1>1, <3>2, <3>3
  <2>2. (n - o) * TickUs \in Nat /\ origin.sec * ALT_US \in Nat
    BY <1>1, <2>1, WallConstants
  <2> QED BY <1>1, <1>7, <2>1, <2>2 DEF Microseconds
<1>11. ASSUME ticks \div Word = origin.tick \div Word
       PROVE  /\ Microseconds(Now) - t \in 1 - m .. m - 1
              /\ o * TickUs < Word => Microseconds(Now) - t = 0
  BY <1>7, <1>9, <1>10, <1>11
<1> QED BY <1>7, <1>9, <1>10, <1>11

LEMMA WallStep ==
  ASSUME WallInv, [WallNext]_wallVars
  PROVE  WallInv'
<1> USE WallConstants
<1>1. ASSUME UNCHANGED wallVars PROVE WallInv'
  BY <1>1 DEF WallInv, WallTypeOK, wallVars
<1>2. ASSUME StartClock PROVE WallInv'
  BY <1>2 DEF WallInv, WallTypeOK, StartClock
<1>3. ASSUME WallTick PROVE WallInv'
  <2>1. ticks' = ticks + 1 /\ ticks' \in Nat
    BY <1>3 DEF WallTick, WallInv, WallTypeOK
  <2>2. origin' \in [sec : Nat, usec : 0 .. ALT_US - 1, tick : 0 .. ticks']
    BY <1>3, <2>1 DEF WallInv, WallTypeOK, WallTick
  <2> QED BY <1>3, <2>1, <2>2 DEF WallInv, WallTypeOK, WallTick
<1>4. ASSUME GetTimeOfDay PROVE WallInv'
  <2>1. tv'.sec \in Int /\ tv'.usec \in 0 .. ALT_US - 1
    BY <1>4, NowIs DEF GetTimeOfDay
  <2> QED BY <1>4, <2>1 DEF WallInv, WallTypeOK, GetTimeOfDay
<1>5. ASSUME NoClock PROVE WallInv'
  BY <1>5 DEF WallInv, WallTypeOK, NoClock
<1>6. ASSUME NEW t \in Times, SetTimeOfDay(t) PROVE WallInv'
  <2>1. t.sec \in Nat /\ t.usec \in 0 .. ALT_US - 1
    BY ClocksAssumption DEF WallClockAssumption
  <2>2. alt_tick_rate = TickRate /\ UsPerTick = TickUs
    BY <1>6 DEF SetTimeOfDay, WallInv, WallTypeOK, UsPerTick, TickUs
  <2>3. wall_nticks \in Nat /\ wall_nticks = ticks % Word
    BY CountOfTicks DEF WallInv, WallTypeOK, wall_nticks
  <2>4. Noted(wall_nticks) \in 0 .. ALT_US - 1 /\ wall_nticks \div TickRate \in Nat
    BY <2>3, NotedIs, Quotient
  <2>5. alt_resettime' = [sec  |-> t.sec - wall_nticks \div TickRate,
                          usec |-> t.usec - Noted(wall_nticks)]
    BY <1>6, <2>2 DEF SetTimeOfDay, Noted
  <2>6. origin' = [sec |-> t.sec, usec |-> t.usec, tick |-> ticks]
    BY <1>6 DEF SetTimeOfDay
  <2>7. alt_resettime'.sec \in Int /\ alt_resettime'.usec \in 1 - ALT_US .. ALT_US - 1
    BY <2>1, <2>4, <2>5
  <2>8. WallTypeOK'
    BY <1>6, <2>7 DEF SetTimeOfDay, WallInv, WallTypeOK
  <2>9. ticks' = ticks /\ ticks \in Nat
    BY <1>6 DEF SetTimeOfDay, WallInv, WallTypeOK
  <2> QED BY <2>1, <2>3, <2>5, <2>6, <2>8, <2>9 DEF WallInv
<1> QED
  BY <1>1, <1>2, <1>3, <1>4, <1>5, <1>6 DEF WallNext

LEMMA WallRight == WallInv => WallTypeOK /\ WithinSecond
<1> SUFFICES ASSUME WallInv PROVE WallTypeOK /\ WithinSecond
  OBVIOUS
<1>1. alt_tick_rate > 0 => UsPerTick = TickUs
  BY DEF WallInv, WallTypeOK, UsPerTick, TickUs
<1> QED BY <1>1, NowIs DEF WallInv, WithinSecond

(* Delays: the turns of n big loops, of which some began with 0; every big *)
(* loop that is done has counted its microseconds.                         *)
Turned(n) == (n - Zeroed(n)) * INT_MAX + Zeroed(n) * Word
Loaded(n) == IF hoisted /\ n > 0 THEN 0 ELSE INT_MAX
BigDone == asked \div Chunk - big_loops
BusyInv ==
  /\ BusyTypeOK /\ DelayBounds /\ asked \in 0 .. Word - 1
  /\ busy_pc = "rest" => us = asked /\ asked < Chunk /\ turns = 0
  /\ busy_pc = "big" =>
       /\ asked >= Chunk /\ big_loops <= asked \div Chunk
       /\ us = big_loops * Chunk + (asked % Chunk)
       /\ register = Loaded(BigDone) /\ turns = Turned(BigDone)

LEMMA BusyConstants ==
  /\ Word \in Nat /\ INT_MAX \in Nat \ {0} /\ INT_MAX < Word
  /\ LoopsPerUs \in Nat \ {0} /\ Chunk \in Nat \ {0}
  /\ Chunk * LoopsPerUs \in Nat /\ Chunk * LoopsPerUs <= INT_MAX
  /\ INT_MAX <= Chunk * LoopsPerUs + LoopsPerUs
<1>1. Word \in Nat /\ LoopsPerUs \in 1 .. INT_MAX
  BY ClocksAssumption DEF BusySleepAssumption
<1>2. Word \div 2 \in Nat /\ Word \div 2 <= Word /\ INT_MAX \in Int
  BY <1>1 DEF INT_MAX
<1>3. INT_MAX \in Nat \ {0} /\ INT_MAX < Word /\ LoopsPerUs \in Nat \ {0}
      /\ LoopsPerUs <= INT_MAX
  BY <1>1, <1>2 DEF INT_MAX
<1>4. PICK q \in Nat, r \in 0 .. LoopsPerUs - 1 :
        /\ q = Chunk /\ r = INT_MAX % LoopsPerUs
        /\ INT_MAX = LoopsPerUs * q + r
  BY <1>3, Quotient DEF Chunk
<1>5. q # 0
  BY <1>3, <1>4
<1>6. PICK p \in Nat : p = LoopsPerUs * q /\ p = q * LoopsPerUs
  BY <1>3, <1>4
<1> QED BY <1>1, <1>3, <1>4, <1>5, <1>6

(* What is left of a delay after its big loops.                            *)
LEMMA Leftover ==
  ASSUME NEW d \in 0 .. Word - 1
  PROVE  /\ d \div Chunk \in Nat /\ d % Chunk \in 0 .. Chunk - 1
         /\ d = (d \div Chunk) * Chunk + (d % Chunk)
         /\ d \div Chunk <= d
         /\ d \div Chunk = 0 => d < Chunk
         /\ d \div Chunk > 0 => d >= Chunk
<1>1. PICK q \in Nat, r \in 0 .. Chunk - 1, c \in Nat \ {0} :
        /\ c = Chunk /\ q = d \div Chunk /\ r = d % Chunk /\ d = c * q + r
  BY BusyConstants, Quotient
<1>2. c * q = q * c /\ q <= c * q
  OBVIOUS
<1>3. q > 0 => c * 0 + c <= c * q
  BY MoreMultiples
<1> QED BY <1>1, <1>2, <1>3

LEMMA ShortProduct ==
  ASSUME NEW d \in 0 .. Chunk
  PROVE  /\ d * LoopsPerUs \in 0 .. INT_MAX
         /\ (d * LoopsPerUs) % Word = d * LoopsPerUs
         /\ d > 0 => d * LoopsPerUs > 0
<1>1. PICK l \in Nat \ {0}, c \in Nat : l = LoopsPerUs /\ c = Chunk
  BY BusyConstants
<1>2. d * l <= c * l /\ d * l \in Nat /\ (d > 0 => d * l > 0)
  BY <1>1
<1>3. PICK p \in Nat : p = d * l
  BY <1>2
<1>4. p \in 0 .. INT_MAX /\ p % Word = p
  BY <1>1, <1>2, <1>3, BusyConstants
<1> QED BY <1>1, <1>2, <1>3, <1>4

(* The turns of one more big loop.                                         *)
LEMMA OneMore ==
  ASSUME BusyTypeOK, NEW n \in Nat
  PROVE  /\ Turned(n) \in Nat /\ Turned(0) = 0 /\ Loaded(0) = INT_MAX
         /\ Turned(n + 1) = Turned(n) + BneTurns(Loaded(n))
         /\ Loaded(n + 1) = IF hoisted THEN 0 ELSE INT_MAX
         /\ Zeroed(n) \in 0 .. n
<1>1. PICK i \in Nat \ {0}, w \in Nat : i = INT_MAX /\ w = Word
  BY BusyConstants
<1>2. hoisted \in BOOLEAN
  BY DEF BusyTypeOK
<1>3. CASE ~hoisted
  <2>1. /\ Turned(n) = n * i /\ Turned(0) = 0 /\ Turned(n + 1) = (n + 1) * i
        /\ BneTurns(Loaded(n)) = i
    BY <1>1, <1>3 DEF Turned, Zeroed, Loaded, BneTurns
  <2>2. n * i \in Nat /\ (n + 1) * i = n * i + i
    BY <1>1
  <2> QED BY <1>1, <1>3, <2>1, <2>2 DEF Loaded, Zeroed
<1>4. CASE hoisted /\ n = 0
  BY <1>1, <1>4 DEF Turned, Zeroed, Loaded, BneTurns
<1>5. CASE hoisted /\ n > 0
  <2>1. Zeroed(n) = n - 1 /\ Zeroed(n + 1) = n
    BY <1>5 DEF Zeroed
  <2>2. /\ Turned(n) = (n - (n - 1)) * i + (n - 1) * w
        /\ Turned(n + 1) = ((n + 1) - n) * i + n * w
        /\ BneTurns(Loaded(n)) = w
    BY <1>1, <1>5, <2>1 DEF Turned, Loaded, BneTurns
  <2>3. (n - 1) * w \in Nat /\ n * w = (n - 1) * w + w
    BY <1>1, <1>5
  <2>4. Turned(n) = i + (n - 1) * w /\ Turned(n + 1) = i + n * w
    BY <1>1, <2>2
  <2>5. Turned(0) = 0 /\ Loaded(0) = INT_MAX /\ Loaded(n + 1) = 0
    BY <1>1, <1>5 DEF Turned, Zeroed, Loaded
  <2>6. PICK v \in Nat : v = (n - 1) * w
    BY <2>3
  <2> QED BY <1>1, <1>5, <2>1, <2>2, <2>3, <2>4, <2>5, <2>6
<1> QED BY <1>2, <1>3, <1>4, <1>5

LEMMA BusyInitInv == BusyInit => BusyInv
<1> SUFFICES ASSUME BusyInit PROVE BusyInv
  OBVIOUS
<1>0. BusyTypeOK
  BY BusyConstants DEF BusyInit, BusyTypeOK
<1>1. PICK l \in Nat, k \in Nat : l = LoopsPerUs /\ k = 0 \div Chunk
  BY BusyConstants, Leftover
<1>2. FromZero(0) \in Nat /\ Word \in Nat
  <2>1. Zeroed(k) \in Nat
    BY <1>0, <1>1, OneMore
  <2> QED BY <1>1, <2>1, BusyConstants DEF FromZero
<1>3. DelayBounds
  <2>1. 0 * l = 0 /\ (1 + k) * l \in Nat /\ FromZero(0) * Word \in Nat
    BY <1>1, <1>2
  <2>2. PICK x \in Nat, y \in Nat : x = (1 + k) * l /\ y = FromZero(0) * Word
    BY <2>1
  <2> QED BY <1>1, <2>1, <2>2 DEF DelayBounds, BusyInit
<1> QED BY <1>0, <1>3, BusyConstants DEF BusyInit, BusyInv

LEMMA SleepBegins ==
  ASSUME BusyInv, NEW d \in Sleeps, usleep(d)
  PROVE  BusyInv'
<1>1. d \in 0 .. Word - 1
  BY ClocksAssumption DEF BusySleepAssumption
<1>2. PICK k \in Nat : k = d \div Chunk /\ k <= d
  BY <1>1, Leftover
<1>3. /\ us' = d /\ big_loops' = k /\ register' = INT_MAX /\ turns' = 0
      /\ asked' = d /\ busy_pc' = (IF k > 0 THEN "big" ELSE "rest")
      /\ hoisted' = hoisted
  BY <1>2 DEF usleep
<1>4. BusyTypeOK' /\ DelayBounds'
  BY <1>1, <1>2, <1>3, BusyConstants DEF BusyInv, BusyTypeOK, DelayBounds
<1>5. CASE k > 0
  <2>1. d >= Chunk /\ d = k * Chunk + (d % Chunk)
    BY <1>1, <1>2, <1>5, Leftover
  <2>2. BigDone' = 0
    BY <1>2, <1>3 DEF BigDone
  <2>3. Turned(0) = 0 /\ Loaded(0) = INT_MAX
    BY OneMore DEF BusyInv
  <2>4. turns' = Turned(BigDone)' /\ register' = Loaded(BigDone)'
    BY <1>3, <2>2, <2>3 DEF Turned, Zeroed, Loaded
  <2> QED BY <1>1, <1>2, <1>3, <1>4, <1>5, <2>1, <2>4 DEF BusyInv
<1>6. CASE k = 0
  <2>1. d < Chunk
    BY <1>1, <1>2, <1>6, Leftover
  <2> QED BY <1>1, <1>3, <1>4, <1>6, <2>1 DEF BusyInv
<1> QED BY <1>5, <1>6

LEMMA BigLoopStep ==
  ASSUME BusyInv, BigLoop
  PROVE  BusyInv'
<1> USE BusyConstants
<1>0. /\ asked \in 0 .. Word - 1 /\ big_loops \in Nat
      /\ asked \div Chunk \in Nat /\ asked % Chunk \in Nat
  <2>1. asked \in 0 .. Word - 1 /\ big_loops \in Nat
    BY DEF BusyInv, BusyTypeOK
  <2> QED BY <2>1, Leftover
<1>1. PICK k \in Nat, b \in Nat, c \in Nat \ {0}, r \in Nat :
        /\ k = asked \div Chunk /\ b = big_loops /\ c = Chunk
        /\ r = asked % Chunk
  BY <1>0, BusyConstants, Zenon
<1>2. /\ b > 0 /\ b <= k /\ us = b * c + r /\ BigDone = k - b
      /\ turns = Turned(k - b) /\ register = Loaded(k - b) /\ us \in 0 .. Word - 1
  BY <1>1 DEF BusyInv, BusyTypeOK, BigLoop, BigDone
<1>3. /\ us' = us - c /\ big_loops' = b - 1 /\ turns' = turns + BneTurns(register)
      /\ register' = (IF hoisted THEN 0 ELSE INT_MAX) /\ busy_pc' = "big"
      /\ asked' = asked /\ hoisted' = hoisted
  BY <1>1, <1>2 DEF BigLoop
<1>4. us' = (b - 1) * c + r
  BY <1>2, <1>3
<1>5. PICK n \in Nat : n = k - b
  BY <1>2
<1>6. turns' = Turned(n + 1) /\ register' = Loaded(n + 1) /\ turns' \in Nat
  <2>1. BusyTypeOK /\ n + 1 \in Nat
    BY <1>5 DEF BusyInv
  <2>2. /\ Turned(n + 1) = Turned(n) + BneTurns(Loaded(n))
        /\ Loaded(n + 1) = IF hoisted THEN 0 ELSE INT_MAX
    BY <2>1, OneMore
  <2>3. Turned(n + 1) \in Nat
    BY <2>1, OneMore
  <2> QED BY <1>2, <1>3, <1>5, <2>2, <2>3
<1>7. BigDone' = n + 1
  BY <1>1, <1>2, <1>3, <1>5 DEF BigDone
<1>8. turns' = Turned(BigDone)' /\ register' = Loaded(BigDone)'
  BY <1>3, <1>6, <1>7 DEF Turned, Zeroed, Loaded
<1>9. us' \in 0 .. Word - 1
  <2>1. (b - 1) * c \in Nat
    BY <1>2
  <2>2. PICK x \in Nat : x = (b - 1) * c
    BY <2>1
  <2> QED BY <1>2, <1>3, <1>4, <2>2
<1>10. BusyTypeOK' /\ DelayBounds'
  BY <1>1, <1>2, <1>3, <1>6, <1>9 DEF BusyInv, BusyTypeOK, DelayBounds
<1>11. asked' \in 0 .. Word - 1 /\ asked' >= Chunk
  BY <1>3 DEF BusyInv, BigLoop
<1>12. /\ big_loops' <= asked' \div Chunk
       /\ us' = big_loops' * Chunk + (asked' % Chunk)
  BY <1>1, <1>2, <1>3, <1>4
<1> QED BY <1>3, <1>8, <1>10, <1>11, <1>12 DEF BusyInv

(* Turns of whole loops and of what is left: not fewer than those of the   *)
(* delay, as a big loop has as many as its microseconds at least.          *)
LEMMA LongEnough ==
  ASSUME NEW k \in Nat, NEW r \in Nat, NEW c \in Nat, NEW l \in Nat, NEW i \in Nat,
         c * l <= i, i <= c * l + l
  PROVE  k * i + r * l \in (k * c + r) * l .. (k * c + r) * l + (1 + k) * l
<1>1. PICK m \in Nat : m = c * l
  OBVIOUS
<1>2. (k * c + r) * l = k * m + r * l
  <2>1. (k * c + r) * l = (k * l) * c + r * l
    BY Distribute
  <2>2. (k * l) * c = k * (c * l)
    OBVIOUS
  <2> QED BY <1>1, <2>1, <2>2
<1>3. k * m <= k * i /\ k * i <= k * (m + l)
  BY <1>1
<1>4. k * (m + l) = k * m + k * l /\ (1 + k) * l = l + k * l
  BY <1>1
<1>5. PICK x \in Nat, y \in Nat, z \in Nat, u \in Nat :
        x = k * m /\ y = k * i /\ z = k * l /\ u = r * l
  BY <1>1
<1> QED BY <1>2, <1>3, <1>4, <1>5

(* A sum of two loops' turns, one of which may be a word's.                *)
LEMMA WordsMore ==
  ASSUME NEW lo \in Nat, NEW hi \in Nat, NEW z \in Nat, NEW k \in Nat, z <= k,
         NEW i \in Nat, NEW w \in Nat, i <= w, NEW y \in Nat, NEW g \in {0, 1},
         k * i + y \in lo .. lo + hi
  PROVE  (k - z) * i + z * w + y + g * w \in lo .. lo + hi + (z + g) * w
<1>1. (k - z) * i = k * i - z * i /\ (z + g) * w = z * w + g * w
  OBVIOUS
<1>2. z * i <= z * w /\ z * i \in Nat /\ k * i \in Nat /\ g * w \in Nat
  OBVIOUS
<1>3. PICK a \in Nat, b \in Nat, c \in Nat, d \in Nat :
        a = k * i /\ b = z * i /\ c = z * w /\ d = g * w
  BY <1>2
<1> QED BY <1>1, <1>2, <1>3

LEMMA LastLoopStep ==
  ASSUME BusyInv, LastLoop
  PROVE  BusyInv'
<1> USE BusyConstants
<1>1. PICK k \in Nat, c \in Nat \ {0}, r \in Nat, i \in Nat \ {0}, l \in Nat \ {0} :
        /\ k = asked \div Chunk /\ c = Chunk /\ l = LoopsPerUs
        /\ r = asked % Chunk /\ i = INT_MAX
  <2>1. asked \in 0 .. Word - 1
    BY DEF BusyInv
  <2>2. asked \div Chunk \in Nat /\ asked % Chunk \in Nat
    BY <2>1, Leftover
  <2> QED BY <2>2, BusyConstants, Zenon
<1>2. /\ us = 0 * c + r /\ turns = Turned(k) /\ asked >= c
      /\ asked \in 0 .. Word - 1
  BY <1>1 DEF BusyInv, LastLoop, BigDone
<1>3. us = r /\ r \in 0 .. Chunk /\ asked = k * c + r /\ asked > 0
  BY <1>1, <1>2, Leftover
<1>4. Remainder = r * l /\ r * l \in Nat /\ (r > 0 => r * l > 0)
  BY <1>1, <1>3, ShortProduct DEF Remainder
<1>5. PICK z \in Nat, g \in {0, 1}, y \in Nat :
        /\ z = Zeroed(k) /\ z <= k /\ g = (IF r = 0 THEN 1 ELSE 0) /\ y = r * l
  <2>1. BusyTypeOK
    BY DEF BusyInv
  <2>2. Zeroed(k) \in 0 .. k
    BY <2>1, OneMore
  <2>3. PICK y \in Nat : y = r * l
    BY <1>4
  <2>4. PICK g \in {0, 1} : g = (IF r = 0 THEN 1 ELSE 0)
    OBVIOUS
  <2> QED BY <2>2, <2>3, <2>4
<1>6. FromZero(asked) = z + g
  BY <1>1, <1>3, <1>5 DEF FromZero
<1>7. /\ turns' = (k - z) * i + z * Word + y + g * Word
      /\ busy_pc' = "idle" /\ asked' = asked /\ hoisted' = hoisted
  <2>1. BneTurns(y) = y + g * Word
    BY <1>1, <1>4, <1>5 DEF BneTurns
  <2>2. turns' = Turned(k) + BneTurns(y)
    BY <1>2, <1>4, <1>5 DEF LastLoop
  <2>3. Turned(k) = (k - z) * i + z * Word
    BY <1>1, <1>5 DEF Turned
  <2>4. Turned(k) \in Nat /\ g * Word \in Nat
    BY <1>1, <1>5, OneMore DEF BusyInv
  <2>5. PICK t \in Nat, v \in Nat : t = Turned(k) /\ v = g * Word
    BY <2>4
  <2>6. turns' = t + y + v
    BY <2>1, <2>2, <2>5
  <2> QED BY <2>3, <2>5, <2>6 DEF LastLoop
<1>8. k * i + y \in asked * l .. asked * l + (1 + k) * l
  BY <1>1, <1>3, <1>5, LongEnough
<1>9. turns' \in asked * l .. asked * l + (1 + k) * l + (z + g) * Word
  <2>1. PICK lo \in Nat, hi \in Nat : lo = asked * l /\ hi = (1 + k) * l
    <3>1. asked \in Nat /\ asked * l \in Nat /\ (1 + k) * l \in Nat
      BY <1>1, <1>2
    <3> QED BY <3>1
  <2>2. k * i + y \in lo .. lo + hi /\ i <= Word
    BY <1>1, <1>8, <2>1
  <2>3. (k - z) * i + z * Word + y + g * Word \in lo .. lo + hi + (z + g) * Word
    BY <1>1, <1>5, <2>2, WordsMore
  <2> QED BY <1>7, <2>1, <2>3
<1>10. FromZero(asked)' = z + g
  BY <1>6, <1>7 DEF FromZero, Zeroed
<1>11. DelayBounds'
  BY <1>1, <1>7, <1>9, <1>10 DEF DelayBounds
<1>12. turns' \in Nat
  <2>1. asked * l \in Nat
    BY <1>1, <1>3
  <2> QED BY <1>9, <2>1
<1> QED BY <1>7, <1>11, <1>12 DEF BusyInv, BusyTypeOK, LastLoop

LEMMA ShortLoopStep ==
  ASSUME BusyInv, ShortLoop
  PROVE  BusyInv'
<1> USE BusyConstants
<1>1. us = asked /\ asked \in 0 .. Chunk /\ turns = 0 /\ asked \in 0 .. Word - 1
  BY DEF BusyInv, ShortLoop
<1>2. PICK k \in Nat, l \in Nat \ {0}, p \in 0 .. INT_MAX :
        /\ k = asked \div Chunk /\ l = LoopsPerUs /\ p = asked * LoopsPerUs
        /\ p = Remainder /\ (asked > 0 => p > 0)
  BY <1>1, Leftover, ShortProduct DEF Remainder
<1>3. /\ turns' = BgtTurns(p) /\ busy_pc' = "idle" /\ asked' = asked
      /\ us' = us /\ big_loops' = big_loops /\ register' = register
      /\ hoisted' = hoisted
  BY <1>1, <1>2 DEF ShortLoop, BgtTurns
<1>4. (1 + k) * l \in Nat /\ l <= (1 + k) * l
  BY <1>2
<1>5. FromZero(asked) * Word \in Nat /\ FromZero(asked)' = FromZero(asked)
  <2>1. Zeroed(k) \in Nat
    BY <1>2, OneMore DEF BusyInv
  <2>2. FromZero(asked) \in Nat
    BY <1>2, <2>1 DEF FromZero
  <2>3. FromZero(asked)' = FromZero(asked)
    BY <1>3 DEF FromZero, Zeroed
  <2> QED BY <2>2, <2>3
<1>6. BgtTurns(p) \in p .. p + (1 + k) * l + FromZero(asked) * Word
  <2>1. PICK x \in Nat, y \in Nat : x = (1 + k) * l /\ y = FromZero(asked) * Word
    BY <1>4, <1>5
  <2> QED BY <1>2, <1>4, <2>1 DEF BgtTurns
<1>7. turns' \in Nat
  BY <1>2, <1>3 DEF BgtTurns
<1>8. DelayBounds'
  BY <1>2, <1>3, <1>5, <1>6 DEF DelayBounds
<1> QED BY <1>3, <1>7, <1>8 DEF BusyInv, BusyTypeOK

LEMMA BusyStep ==
  ASSUME BusyInv, [BusyNext]_busyVars
  PROVE  BusyInv'
<1>1. CASE UNCHANGED busyVars
  BY <1>1 DEF BusyInv, BusyTypeOK, DelayBounds, FromZero, Zeroed, Turned, Loaded,
              BigDone, busyVars
<1> QED
  BY <1>1, SleepBegins, BigLoopStep, LastLoopStep, ShortLoopStep DEF BusyNext

(* The timer's registers.                                                  *)
TimerTypeOK ==
  /\ internal_counter \in 0 .. Full /\ counter_snapshot \in 0 .. Full
  /\ period_l_register \in 0 .. Half - 1 /\ period_h_register \in 0 .. Half - 1
  /\ counter_is_running \in BOOLEAN /\ force_reload \in BOOLEAN
  /\ control_register \in [interrupt_enable : BOOLEAN, continuous : BOOLEAN]
  /\ delayed_zero \in BOOLEAN /\ timeout_occurred \in BOOLEAN

(* Timestamps: a timer that was started runs down once, from the largest   *)
(* count.                                                                  *)
StampPc == {"idle", "periodL", "periodH", "start", "lower", "upper"}
Stopped == ts_pc["program"] \in {"periodL", "periodH", "start"}
CountDown ==
  /\ elapsed \in -1 .. Full + 1
  /\ Stopped => elapsed = -1 /\ ~counter_is_running
  /\ ts_pc["program"] = "periodH" => period_l_register = Half - 1
  /\ ts_pc["program"] = "start" =>
       /\ period_l_register = Half - 1 /\ period_h_register = Half - 1
       /\ ~force_reload => internal_counter = Full
  /\ elapsed \in 0 .. Full + 1 =>
       /\ period_l_register = Half - 1 /\ period_h_register = Half - 1
       /\ ~control_register.continuous /\ ~force_reload
       /\ internal_counter = IF elapsed <= Full THEN Full - elapsed ELSE Full
       /\ counter_is_running <=> elapsed <= Full

(* What a snapshot holds that was taken at a time.                         *)
Count(t) == IF t <= Full THEN Full - t ELSE Full

(* The snapshot is of a time since the call of a user, and so is what it   *)
(* read of the lower half: of the same time, but for a program that a      *)
(* handler came between.                                                   *)
Latched(c) ==
  \E last \in from[c] .. elapsed : counter_snapshot = Count(last)
LatchedTwice(c) ==
  \E first \in from[c] .. elapsed : \E last \in first .. elapsed :
    lower[c] = Count(first) % Half /\ counter_snapshot = Count(last)

Snapshot(c) ==
  /\ ts_pc[c] \in {"lower", "upper"} => from[c] <= elapsed
  /\ ts_pc[c] = "lower" /\ from[c] >= 0 => Latched(c)
  /\ ts_pc[c] = "upper" /\ from[c] >= 0 => LatchedTwice(c)
  /\ ts_pc[c] = "upper" /\ ~(c = "program" /\ torn) =>
       lower[c] = counter_snapshot % Half

StampTypes ==
  /\ ts_registered \in BOOLEAN /\ ts_pc \in [Users -> StampPc]
  /\ lower \in [Users -> Int] /\ from \in [Users -> -1 .. Full + 1]
  /\ torn \in BOOLEAN
  /\ result \in [value : Int, from : Int, to : Int, torn : BOOLEAN]

StampAnswers == CurrentCount /\ RollOverIsZero

StampInv ==
  /\ StampTypes
  /\ ~ts_registered => elapsed = -1 /\ \A c \in Users : ts_pc[c] = "idle"
  /\ CountDown /\ (\A c \in Users : Snapshot(c)) /\ StampAnswers

(* The timer's interrupt is disabled, the clock is not there.              *)
NoClockInv ==
  /\ ~control_register.interrupt_enable
  /\ state = "off" /\ nticks = 0 /\ periods = 0

(* The system clock: a timer that runs round, and an interrupt that has    *)
(* waited since the last time that it was at its end.                      *)
RunsRound ==
  /\ ~force_reload /\ Half * period_h_register + period_l_register = Load
  /\ internal_counter \in 0 .. Load /\ (delayed_zero => internal_counter # 0)
  /\ state = "off" =>
       internal_counter = Load /\ ~counter_is_running /\ ~timeout_occurred
  /\ state # "off" =>
       /\ counter_is_running
       /\ control_register = [interrupt_enable |-> TRUE, continuous |-> TRUE]

Waited ==
  /\ state = "clear" => timeout_occurred
  /\ irq /\ ~overrun => late = Load - internal_counter

ClockInv ==
  /\ state \in {"off", "starting", "program", "clear", "read", "tick"}
  /\ nticks \in Nat /\ periods \in Nat /\ overrun \in BOOLEAN
  /\ late \in 0 .. Load
  /\ RunsRound /\ Waited /\ EveryPeriodTicks

TimersInv ==
  /\ TimerTypeOK
  /\ \/ timer_of = "timestamp" /\ StampInv /\ NoClockInv
     \/ timer_of = "clock" /\ ClockInv /\ result = Unanswered

LEMMA TimerConstants ==
  /\ Half \in Nat \ {0} /\ Load \in Nat /\ Load > 0 /\ Load <= Full /\ Full \in Nat
  /\ Half * (Half - 1) + (Half - 1) = Full
<1>1. Half \in Nat \ {0} /\ Load \in 0 .. Half * Half - 1 /\ Load > 0
  BY ClocksAssumption DEF TimerAssumption
<1>2. PICK p \in Nat : p = Half * Half
  BY <1>1
<1>3. Half * (Half - 1) + (Half - 1) = Half * Half - 1
  BY <1>1
<1> QED BY <1>1, <1>2, <1>3 DEF Full

(* A count in its two halves.                                              *)
LEMMA Halves ==
  /\ \A n \in 0 .. Full : /\ n % Half \in 0 .. Half - 1 /\ n \div Half \in 0 .. Half - 1
                          /\ Half * (n \div Half) + (n % Half) = n
  /\ \A h, l \in 0 .. Half - 1 : Half * h + l \in 0 .. Full
<1>1. ASSUME NEW n \in 0 .. Full
      PROVE  /\ n % Half \in 0 .. Half - 1 /\ n \div Half \in 0 .. Half - 1
             /\ Half * (n \div Half) + (n % Half) = n
  <2>1. PICK q \in Nat, r \in 0 .. Half - 1 :
          q = n \div Half /\ r = n % Half /\ n = Half * q + r
    BY TimerConstants, Quotient
  <2>2. q <= Half - 1
    <3> SUFFICES ASSUME Half - 1 < q PROVE FALSE
      BY TimerConstants, <2>1
    <3>1. Half * (Half - 1) + Half <= Half * q
      BY TimerConstants, MoreMultiples
    <3>2. PICK x \in Int, y \in Int : x = Half * (Half - 1) /\ y = Half * q
      BY TimerConstants
    <3> QED BY <2>1, <3>1, <3>2, TimerConstants
  <2> QED BY <2>1, <2>2
<1>2. ASSUME NEW h \in 0 .. Half - 1, NEW l \in 0 .. Half - 1
      PROVE  Half * h + l \in 0 .. Full
  <2>1. Half * h <= Half * (Half - 1) /\ Half * h \in Nat /\ Half * (Half - 1) \in Nat
    BY TimerConstants
  <2>2. PICK x \in Nat, y \in Nat : x = Half * (Half - 1) /\ y = Half * h
    BY <2>1
  <2> QED BY <2>1, <2>2, TimerConstants
<1> QED BY <1>1, <1>2

(* What a clock edge makes of the registers' values.                       *)
Access ==
  {NoAccess, WriteSnap, WriteStatus, WritePeriodL(Half - 1), WritePeriodH(Half - 1),
   WriteControl({"STOP"}), WriteControl({"START"}),
   WriteControl({"ITO", "CONT", "START"})}

LEMMA ClockTypes ==
  ASSUME TimerTypeOK, NEW op \in Access, Clock(op)
  PROVE  TimerTypeOK'
<1> USE TimerConstants
<1>1. PICK x \in 0 .. Full : x = Half * period_h_register + period_l_register
  BY Halves DEF TimerTypeOK
<1>2. op.reg \in {"periodL", "periodH"} => op.data = Half - 1
  BY DEF Access, NoAccess, WriteSnap, WriteStatus, WritePeriodL, WritePeriodH,
         WriteControl
<1>3. internal_counter' \in 0 .. Full /\ counter_snapshot' \in 0 .. Full
  BY <1>1 DEF Clock, TimerTypeOK
<1>4. period_l_register' \in 0 .. Half - 1 /\ period_h_register' \in 0 .. Half - 1
  BY <1>2 DEF Clock, TimerTypeOK
<1>5. /\ force_reload' \in BOOLEAN
      /\ delayed_zero' \in BOOLEAN /\ timeout_occurred' \in BOOLEAN
  BY DEF Clock, TimerTypeOK
<1>6. counter_is_running' \in BOOLEAN
  BY DEF Clock, TimerTypeOK
<1>7. control_register' \in [interrupt_enable : BOOLEAN, continuous : BOOLEAN]
  BY DEF Clock, TimerTypeOK
<1> QED BY <1>3, <1>4, <1>5, <1>6, <1>7 DEF TimerTypeOK

(* A cycle in which the timer is not written to, and the time goes on.     *)
LEMMA CountGoesOn ==
  ASSUME TimerTypeOK, CountDown, NEW op \in {NoAccess, WriteSnap}, Clock(op),
         StampPasses, ts_pc'["program"] = ts_pc["program"] \/ ~(Stopped \/ Stopped')
  PROVE  CountDown' /\ (elapsed >= 0 => elapsed' >= elapsed)
<1> USE TimerConstants
<1>1. op.reg \in {"none", "snap"}
  BY DEF NoAccess, WriteSnap
<1>2. /\ period_l_register' = period_l_register /\ period_h_register' = period_h_register
      /\ control_register' = control_register /\ ~force_reload'
      /\ internal_counter' =
           IF ~counter_is_running /\ ~force_reload THEN internal_counter
           ELSE IF internal_counter = 0 \/ force_reload
                THEN Half * period_h_register + period_l_register
           ELSE internal_counter - 1
  BY <1>1 DEF Clock
<1>7. /\ counter_is_running' => counter_is_running
      /\ ~force_reload /\ ~control_register.continuous =>
           (counter_is_running' <=> counter_is_running /\ internal_counter # 0)
  <2>1. counter_is_running' =
          (counter_is_running /\ ~force_reload
             /\ ~(internal_counter = 0 /\ ~control_register.continuous))
    BY <1>1, Zenon DEF Clock
  <2> QED BY <2>1
<1>3. elapsed' = IF elapsed \in 0 .. Full THEN elapsed + 1 ELSE elapsed
  BY DEF StampPasses
<1>4. elapsed \in -1 .. Full + 1
  BY DEF CountDown
<1>5. CASE elapsed = -1
  <2>1. elapsed' = -1
    BY <1>3, <1>5
  <2>2. Stopped' => ts_pc'["program"] = ts_pc["program"] /\ Stopped
    BY DEF Stopped
  <2>3. Stopped' => ~counter_is_running'
    BY <1>7, <2>2 DEF CountDown
  <2>4. ts_pc'["program"] = "periodH" => period_l_register' = Half - 1
    BY <1>2, <2>2 DEF CountDown, Stopped
  <2>5. ts_pc'["program"] = "start" =>
          /\ period_l_register' = Half - 1 /\ period_h_register' = Half - 1
          /\ internal_counter' = Full
    BY <1>2, <2>2 DEF CountDown, Stopped
  <2> QED BY <1>5, <2>1, <2>3, <2>4, <2>5 DEF CountDown
<1>6. CASE elapsed \in 0 .. Full + 1
  <2>1. ~Stopped /\ ~Stopped'
    BY <1>4, <1>6 DEF CountDown, Stopped
  <2>2. /\ period_l_register = Half - 1 /\ period_h_register = Half - 1
        /\ ~control_register.continuous /\ ~force_reload
        /\ internal_counter = IF elapsed <= Full THEN Full - elapsed ELSE Full
        /\ counter_is_running <=> elapsed <= Full
    BY <1>6 DEF CountDown
  <2>3. elapsed' \in 0 .. Full + 1 /\ elapsed' >= elapsed
    BY <1>3, <1>6
  <2>4. /\ internal_counter' = IF elapsed' <= Full THEN Full - elapsed' ELSE Full
        /\ counter_is_running' <=> elapsed' <= Full
    <3>0. /\ internal_counter' = IF ~counter_is_running THEN internal_counter
                                ELSE IF internal_counter = 0 THEN Full
                                ELSE internal_counter - 1
          /\ counter_is_running' <=> counter_is_running /\ internal_counter # 0
      <4>1. Half * period_h_register + period_l_register = Full
        BY <2>2
      <4> QED BY <1>2, <1>7, <2>2, <4>1
    <3>1. CASE elapsed < Full
      BY <1>3, <1>6, <2>2, <3>0, <3>1
    <3>2. CASE elapsed = Full
      BY <1>3, <1>6, <2>2, <3>0, <3>2
    <3>3. CASE elapsed = Full + 1
      BY <1>3, <1>6, <2>2, <3>0, <3>3
    <3> QED BY <1>6, <3>1, <3>2, <3>3
  <2>5. ~control_register'.continuous
    BY <1>2, <2>2
  <2>6. /\ period_l_register' = Half - 1 /\ period_h_register' = Half - 1
        /\ ~force_reload'
    BY <1>2, <2>2
  <2>7. /\ ts_pc'["program"] # "periodL" /\ ts_pc'["program"] # "periodH"
        /\ ts_pc'["program"] # "start"
    BY <2>1 DEF Stopped
  <2>8. elapsed' \in -1 .. Full + 1
    BY <2>3
  <2> QED BY <2>1, <2>3, <2>4, <2>5, <2>6, <2>7, <2>8 DEF CountDown
<1> QED BY <1>4, <1>5, <1>6

(* What the two halves of the counts of two times come to.                 *)
LEMMA HalvesOfTwo ==
  ASSUME NEW first \in 0 .. Full + 1, NEW last \in first .. Full + 1,
         NEW low, low = Count(first) % Half,
         NEW value, value = Full - (Half * (Count(last) \div Half) + low)
  PROVE  /\ value \in Int
         /\ last <= Full => value \in first .. last + (Half - 1)
         /\ last <= Full /\ low = Count(last) % Half => value = last
         /\ first > Full => value = 0
<1> USE TimerConstants
<1>1. Count(first) \in 0 .. Full /\ Count(last) \in 0 .. Full
  BY DEF Count
<1>2. PICK a \in 0 .. Full, b \in 0 .. Full : a = Count(first) /\ b = Count(last)
  BY <1>1
<1>3. PICK p \in 0 .. Half - 1, q \in 0 .. Half - 1, r \in 0 .. Half - 1 :
        /\ p = a \div Half /\ q = b \div Half /\ r = b % Half
        /\ low \in 0 .. Half - 1
        /\ Half * p + low = a /\ Half * q + r = b
  <2>1. /\ a % Half \in 0 .. Half - 1 /\ a \div Half \in 0 .. Half - 1
        /\ Half * (a \div Half) + (a % Half) = a
    BY <1>2, Halves
  <2>2. /\ b % Half \in 0 .. Half - 1 /\ b \div Half \in 0 .. Half - 1
        /\ Half * (b \div Half) + (b % Half) = b
    BY <1>2, Halves
  <2>3. low = a % Half
    BY <1>2
  <2> QED BY <2>1, <2>2, <2>3, Zenon
<1>4. Half * p \in Nat /\ Half * q \in Nat
  BY <1>3
<1>5. PICK x \in Nat, y \in Nat : x = Half * p /\ y = Half * q
  BY <1>4
<1>6. value = Full - (y + low)
  BY <1>2, <1>3, <1>5
<1>7. value \in Int
  BY <1>3, <1>5, <1>6
<1>8. ASSUME last <= Full PROVE value \in first .. last + (Half - 1)
  <2>1. a = Full - first /\ b = Full - last /\ b <= a
    BY <1>2, <1>8 DEF Count
  <2>2. q <= p
    <3> SUFFICES ASSUME p < q PROVE FALSE
      BY <1>3
    <3>1. Half * p + Half <= Half * q
      BY <1>3, MoreMultiples
    <3> QED BY <1>3, <1>5, <2>1, <3>1
  <2>3. y <= x
    BY <1>3, <1>5, <2>2
  <2> QED BY <1>3, <1>5, <1>6, <2>1, <2>3
<1>9. ASSUME last <= Full, low = Count(last) % Half PROVE value = last
  BY <1>2, <1>3, <1>5, <1>6, <1>9 DEF Count
<1>10. ASSUME first > Full PROVE value = 0
  <2>1. a = Full /\ b = Full
    BY <1>2, <1>10 DEF Count
  <2> QED BY <1>2, <1>3, <1>5, <1>6, <2>1
<1> QED BY <1>7, <1>8, <1>9, <1>10

(* Time that goes on keeps what a user holds.                              *)
LEMMA SnapshotStays ==
  ASSUME StampTypes, StampTypes', NEW c \in Users, Snapshot(c), CountDown, CountDown',
         elapsed <= elapsed', counter_snapshot' = counter_snapshot,
         ts_pc'[c] = ts_pc[c], from'[c] = from[c], lower'[c] = lower[c],
         c = "program" /\ torn => torn'
  PROVE  Snapshot(c)'
<1>1. elapsed \in Int /\ elapsed' \in Int /\ from[c] \in Int
  BY TimerConstants DEF CountDown, StampTypes
<1>2. ASSUME Latched(c) PROVE Latched(c)'
  BY <1>1, <1>2 DEF Latched, Count
<1>3. ASSUME LatchedTwice(c) PROVE LatchedTwice(c)'
  <2>1. PICK first \in from[c] .. elapsed : \E last \in first .. elapsed :
          lower[c] = Count(first) % Half /\ counter_snapshot = Count(last)
    BY <1>3 DEF LatchedTwice
  <2>2. PICK last \in first .. elapsed :
          lower[c] = Count(first) % Half /\ counter_snapshot = Count(last)
    BY <2>1
  <2>3. first \in from'[c] .. elapsed' /\ last \in first .. elapsed'
    BY <1>1, <2>1, <2>2
  <2>4. lower'[c] = Count(first) % Half /\ counter_snapshot' = Count(last)
    BY <2>2
  <2> QED BY <2>3, <2>4 DEF LatchedTwice, Count
<1>4. from[c] <= elapsed => from'[c] <= elapsed'
  BY <1>1
<1> QED BY <1>2, <1>3, <1>4 DEF Snapshot

(* What a write to the control register leaves.                            *)
LEMMA ControlWritten ==
  ASSUME NEW bits, Clock(WriteControl(bits))
  PROVE  /\ control_register' = [interrupt_enable |-> "ITO" \in bits,
                                 continuous |-> "CONT" \in bits]
         /\ period_l_register' = period_l_register
         /\ period_h_register' = period_h_register
         /\ ~force_reload'
         /\ "START" \in bits => counter_is_running' = TRUE
<1>1. WriteControl(bits).reg = "control" /\ WriteControl(bits).data = bits
  BY DEF WriteControl
<1>2. /\ control_register' = [interrupt_enable |-> "ITO" \in bits,
                              continuous |-> "CONT" \in bits]
      /\ period_l_register' = period_l_register
      /\ period_h_register' = period_h_register
      /\ ~force_reload'
  BY <1>1 DEF Clock
<1>3. ASSUME "START" \in bits PROVE counter_is_running' = TRUE
  BY <1>1, <1>3, Zenon DEF Clock
<1> QED BY <1>2, <1>3

LEMMA IdleStamp ==
  ASSUME TimerTypeOK, StampInv, Idle \/ Unregistered
  PROVE  StampInv' /\ TimerTypeOK' /\ control_register' = control_register
<1> USE TimerConstants
<1>1. /\ Clock(NoAccess) /\ StampPasses /\ NoAccess \in Access
      /\ UNCHANGED <<ts_registered, ts_pc, lower, from, torn>>
  BY DEF Idle, Unregistered, driver, Access
<1>2. TimerTypeOK'
  BY <1>1, ClockTypes
<1>3. CountDown'
  BY <1>1, CountGoesOn DEF StampInv
<1>4. control_register' = control_register /\ counter_snapshot' = counter_snapshot
  BY <1>1 DEF Clock, NoAccess
<1>5. elapsed \in -1 .. Full + 1 /\ elapsed <= elapsed'
  BY <1>1 DEF StampInv, CountDown, StampPasses
<1>6. ~ts_registered => elapsed' = -1
  BY <1>1 DEF StampInv, StampPasses
<1>7. StampTypes' /\ StampAnswers'
  <2>1. CASE Idle
    BY <2>1 DEF StampInv, StampTypes, StampAnswers, CurrentCount, RollOverIsZero,
                Answered, Idle, driver
  <2>2. CASE Unregistered
    <3>1. result' = [value |-> Full, from |-> -1, to |-> -1, torn |-> FALSE]
      BY <2>2 DEF StampInv, Unregistered
    <3> QED BY <1>1, <3>1 DEF StampInv, StampTypes, StampAnswers, CurrentCount,
                              RollOverIsZero, Answered
  <2> QED BY <2>1, <2>2
<1>8. ASSUME NEW c \in Users PROVE Snapshot(c)'
  BY <1>1, <1>3, <1>4, <1>5, <1>7, SnapshotStays DEF StampInv
<1> QED BY <1>1, <1>2, <1>3, <1>4, <1>6, <1>7, <1>8 DEF StampInv

LEMMA StopStamp ==
  ASSUME TimerTypeOK, StampInv,
         alt_timestamp_start \/ SetPeriodL \/ SetPeriodH \/ StartTimer
  PROVE  /\ StampInv' /\ TimerTypeOK'
         /\ control_register' = control_register
              \/ control_register' = [interrupt_enable |-> FALSE, continuous |-> FALSE]
<1> USE TimerConstants
<1>0. /\ ts_pc \in [Users -> StampPc] /\ Users = {"program", "handler"}
      /\ lower \in [Users -> Int] /\ from \in [Users -> -1 .. Full + 1]
      /\ torn \in BOOLEAN /\ ts_pc["handler"] = "idle"
      /\ result \in [value : Int, from : Int, to : Int, torn : BOOLEAN]
  BY DEF StampInv, StampTypes, Users, alt_timestamp_start, SetPeriodL, SetPeriodH,
         StartTimer, At, Runs
<1>1. CASE alt_timestamp_start
  <2>1. /\ Clock(WriteControl({"STOP"})) /\ elapsed' = -1 /\ result' = Unanswered
        /\ ts_registered /\ ts_registered' = ts_registered
        /\ ts_pc' = [ts_pc EXCEPT !["program"] = "periodL"]
        /\ lower' = lower /\ from' = from /\ torn' = torn
    BY <1>1 DEF alt_timestamp_start, Goto
  <2>2. TimerTypeOK'
    BY <2>1, ClockTypes DEF Access
  <2>3. ~counter_is_running'
    <3>1. counter_is_running' = FALSE
      BY <2>1 DEF Clock, WriteControl
    <3> QED BY <3>1
  <2>4. control_register' = [interrupt_enable |-> FALSE, continuous |-> FALSE]
    <3>1. ("ITO" \in {"STOP"}) = FALSE /\ ("CONT" \in {"STOP"}) = FALSE
      OBVIOUS
    <3>2. control_register' = [interrupt_enable |-> "ITO" \in {"STOP"},
                               continuous |-> "CONT" \in {"STOP"}]
      BY <2>1, ControlWritten
    <3> QED BY <3>1, <3>2, Zenon
  <2>5. ts_pc'["program"] = "periodL" /\ ts_pc'["handler"] = "idle"
        /\ ts_pc' \in [Users -> StampPc]
    BY <1>0, <2>1 DEF StampPc
  <2>6. CountDown'
    BY <2>1, <2>3, <2>5 DEF CountDown, Stopped
  <2>7. \A c \in Users : Snapshot(c)'
    BY <1>0, <2>5 DEF Snapshot
  <2>8. StampTypes' /\ StampAnswers'
    BY <1>0, <2>1, <2>5 DEF StampInv, StampTypes, StampAnswers, Unanswered, CurrentCount,
                            RollOverIsZero, Answered
  <2> QED BY <1>0, <2>1, <2>2, <2>4, <2>5, <2>6, <2>7, <2>8 DEF StampInv
<1>2. CASE SetPeriodL
  <2>1. /\ Clock(WritePeriodL(Half - 1)) /\ elapsed' = elapsed /\ result' = result
        /\ ts_registered' = ts_registered /\ ts_pc["program"] = "periodL"
        /\ ts_pc' = [ts_pc EXCEPT !["program"] = "periodH"]
        /\ lower' = lower /\ from' = from /\ torn' = torn
    BY <1>2 DEF SetPeriodL, Goto, At
  <2>2. TimerTypeOK'
    BY <2>1, ClockTypes DEF Access
  <2>3. elapsed = -1 /\ ~counter_is_running /\ ts_registered
    BY <1>0, <2>1 DEF StampInv, CountDown, Stopped
  <2>4. /\ ~counter_is_running' /\ control_register' = control_register
        /\ period_l_register' = Half - 1
    <3>1. counter_is_running' = FALSE
      BY <2>1, <2>3 DEF Clock, WritePeriodL
    <3> QED BY <2>1, <3>1 DEF Clock, WritePeriodL
  <2>5. ts_pc'["program"] = "periodH" /\ ts_pc'["handler"] = "idle"
        /\ ts_pc' \in [Users -> StampPc]
    BY <1>0, <2>1 DEF StampPc
  <2>6. CountDown'
    BY <2>1, <2>3, <2>4, <2>5 DEF CountDown, Stopped
  <2>7. \A c \in Users : Snapshot(c)'
    BY <1>0, <2>5 DEF Snapshot
  <2>8. StampTypes' /\ StampAnswers'
    BY <1>0, <2>1, <2>5 DEF StampInv, StampTypes, StampAnswers, CurrentCount,
                            RollOverIsZero, Answered
  <2> QED BY <1>0, <2>1, <2>2, <2>3, <2>4, <2>5, <2>6, <2>7, <2>8 DEF StampInv
<1>3. CASE SetPeriodH
  <2>1. /\ Clock(WritePeriodH(Half - 1)) /\ elapsed' = elapsed /\ result' = result
        /\ ts_registered' = ts_registered /\ ts_pc["program"] = "periodH"
        /\ ts_pc' = [ts_pc EXCEPT !["program"] = "start"]
        /\ lower' = lower /\ from' = from /\ torn' = torn
    BY <1>3 DEF SetPeriodH, Goto, At
  <2>2. TimerTypeOK'
    BY <2>1, ClockTypes DEF Access
  <2>3. elapsed = -1 /\ ~counter_is_running /\ ts_registered
        /\ period_l_register = Half - 1
    BY <1>0, <2>1 DEF StampInv, CountDown, Stopped
  <2>4. /\ ~counter_is_running' /\ control_register' = control_register
        /\ period_l_register' = Half - 1 /\ period_h_register' = Half - 1
        /\ force_reload'
    <3>1. counter_is_running' = FALSE /\ force_reload' = TRUE
      BY <2>1, <2>3 DEF Clock, WritePeriodH
    <3> QED BY <2>1, <2>3, <3>1 DEF Clock, WritePeriodH
  <2>5. ts_pc'["program"] = "start" /\ ts_pc'["handler"] = "idle"
        /\ ts_pc' \in [Users -> StampPc]
    BY <1>0, <2>1 DEF StampPc
  <2>6. CountDown'
    BY <2>1, <2>3, <2>4, <2>5 DEF CountDown, Stopped
  <2>7. \A c \in Users : Snapshot(c)'
    BY <1>0, <2>5 DEF Snapshot
  <2>8. StampTypes' /\ StampAnswers'
    BY <1>0, <2>1, <2>5 DEF StampInv, StampTypes, StampAnswers, CurrentCount,
                            RollOverIsZero, Answered
  <2> QED BY <1>0, <2>1, <2>2, <2>3, <2>4, <2>5, <2>6, <2>7, <2>8 DEF StampInv
<1>4. CASE StartTimer
  <2>1. /\ Clock(WriteControl({"START"})) /\ elapsed' = 0 /\ result' = result
        /\ ts_registered' = ts_registered /\ ts_pc["program"] = "start"
        /\ ts_pc' = [ts_pc EXCEPT !["program"] = "idle"]
        /\ lower' = lower /\ from' = from /\ torn' = torn
    BY <1>4 DEF StartTimer, Goto, At
  <2>2. TimerTypeOK'
    BY <2>1, ClockTypes DEF Access
  <2>3. /\ ~counter_is_running /\ ts_registered
        /\ period_l_register = Half - 1 /\ period_h_register = Half - 1
        /\ ~force_reload => internal_counter = Full
    BY <1>0, <2>1 DEF StampInv, CountDown, Stopped
  <2>4. /\ counter_is_running' /\ ~force_reload'
        /\ control_register' = [interrupt_enable |-> FALSE, continuous |-> FALSE]
        /\ period_l_register' = Half - 1 /\ period_h_register' = Half - 1
    <3>1. ("ITO" \in {"START"}) = FALSE /\ ("CONT" \in {"START"}) = FALSE
          /\ "START" \in {"START"}
      OBVIOUS
    <3>2. /\ control_register' = [interrupt_enable |-> "ITO" \in {"START"},
                                  continuous |-> "CONT" \in {"START"}]
          /\ counter_is_running' = TRUE /\ ~force_reload'
          /\ period_l_register' = period_l_register
          /\ period_h_register' = period_h_register
      BY <2>1, <3>1, ControlWritten
    <3>3. control_register' = [interrupt_enable |-> FALSE, continuous |-> FALSE]
      BY <3>1, <3>2, Zenon
    <3> QED BY <2>3, <3>2, <3>3
  <2>5. internal_counter' = Full
    <3>1. Half * period_h_register + period_l_register = Full
      BY <2>3
    <3> QED BY <2>1, <2>3, <3>1, Zenon DEF Clock
  <2>6. ts_pc'["program"] = "idle" /\ ts_pc'["handler"] = "idle"
        /\ ts_pc' \in [Users -> StampPc]
    BY <1>0, <2>1 DEF StampPc
  <2>7. CountDown'
    <3>1. Full - 0 = Full
      OBVIOUS
    <3> QED BY <2>1, <2>4, <2>5, <2>6, <3>1 DEF CountDown, Stopped
  <2>8. \A c \in Users : Snapshot(c)'
    BY <1>0, <2>6 DEF Snapshot
  <2>9. StampTypes' /\ StampAnswers'
    BY <1>0, <2>1, <2>6 DEF StampInv, StampTypes, StampAnswers, CurrentCount,
                            RollOverIsZero, Answered
  <2> QED BY <1>0, <2>1, <2>2, <2>3, <2>4, <2>6, <2>7, <2>8, <2>9 DEF StampInv
<1> QED BY <1>1, <1>2, <1>3, <1>4

LEMMA ReadStamp ==
  ASSUME TimerTypeOK, StampInv, NEW u \in Users,
         alt_timestamp(u) \/ ReadLower(u) \/ ReadUpper(u)
  PROVE  StampInv' /\ TimerTypeOK' /\ control_register' = control_register
<1> USE TimerConstants
<1>0. /\ ts_pc \in [Users -> StampPc] /\ Users = {"program", "handler"}
      /\ lower \in [Users -> Int] /\ from \in [Users -> -1 .. Full + 1]
      /\ elapsed \in -1 .. Full + 1 /\ torn \in BOOLEAN
      /\ result \in [value : Int, from : Int, to : Int, torn : BOOLEAN]
      /\ counter_snapshot \in 0 .. Full
  BY DEF StampInv, StampTypes, CountDown, Users, TimerTypeOK
<1>1. ts_registered /\ ts_registered' = ts_registered
  BY DEF StampInv, alt_timestamp, ReadLower, ReadUpper, At
<1>2. PICK op \in {NoAccess, WriteSnap} :
        /\ Clock(op) /\ StampPasses /\ op \in Access
        /\ op = IF alt_timestamp(u) THEN WriteSnap ELSE NoAccess
  BY DEF alt_timestamp, ReadLower, ReadUpper, Access
<1>3. TimerTypeOK' /\ control_register' = control_register
  <2>1. TimerTypeOK'
    BY <1>2, ClockTypes
  <2> QED BY <1>2, <2>1 DEF Clock, NoAccess, WriteSnap
<1>4. /\ ts_pc[u] \in {"idle", "lower", "upper"}
      /\ ts_pc'[u] \in {"idle", "lower", "upper"}
      /\ \A c \in Users : c # u => ts_pc'[c] = ts_pc[c]
      /\ ts_pc' \in [Users -> StampPc]
  BY <1>0 DEF alt_timestamp, ReadLower, ReadUpper, Goto, At, StampPc
<1>5. CountDown'
  <2>1. ts_pc'["program"] = ts_pc["program"] \/ ~(Stopped \/ Stopped')
    BY <1>0, <1>4 DEF Stopped
  <2> QED BY <1>2, <2>1, CountGoesOn DEF StampInv
<1>6. elapsed <= elapsed' /\ elapsed' \in -1 .. Full + 1
  BY <1>0, <1>2 DEF StampPasses
<1>7. ASSUME NEW c \in Users, c # u
      PROVE  c = "handler" => ts_pc'[c] = "idle"
  BY <1>0, <1>4, <1>7 DEF alt_timestamp, ReadLower, ReadUpper, At, Runs
<1>8. CASE alt_timestamp(u)
  <2>1. /\ ts_pc[u] = "idle" /\ ts_pc'[u] = "lower" /\ lower' = lower
        /\ result' = Unanswered /\ from' = [from EXCEPT ![u] = elapsed]
        /\ torn' = (u = "handler" /\ (torn \/ ts_pc["program"] = "upper"))
    BY <1>0, <1>8 DEF alt_timestamp, Goto, At
  <2>2. counter_snapshot' = internal_counter
    BY <1>2, <1>8 DEF Clock, WriteSnap
  <2>3. from'[u] = elapsed /\ from' \in [Users -> -1 .. Full + 1]
        /\ \A c \in Users : c # u => from'[c] = from[c]
    BY <1>0, <2>1
  <2>4. elapsed >= 0 => counter_snapshot' = Count(elapsed)
    BY <1>0, <2>2 DEF StampInv, CountDown, Count
  <2>5. StampTypes' /\ StampAnswers'
    BY <1>0, <1>1, <1>4, <2>1, <2>3
    DEF StampTypes, StampAnswers, CurrentCount, RollOverIsZero, Answered, Unanswered
  <2>6. Snapshot(u)'
    <3>1. elapsed \in from'[u] .. elapsed'
      BY <1>0, <1>6, <2>3
    <3>2. elapsed >= 0 => Latched(u)'
      BY <2>4, <3>1 DEF Latched, Count
    <3> QED BY <1>0, <1>6, <2>1, <2>3, <3>2 DEF Snapshot
  <2>7. ASSUME NEW c \in Users, c # u, c = "program" PROVE Snapshot(c)'
    <3>1. /\ ts_pc'[c] = ts_pc[c] /\ from'[c] = from[c] /\ lower'[c] = lower[c]
          /\ from[c] \in -1 .. Full + 1 /\ Snapshot(c)
      BY <1>0, <1>4, <2>1, <2>3, <2>7 DEF StampInv
    <3>2. ASSUME ts_pc[c] \in {"lower", "upper"}, from[c] >= 0
          PROVE  elapsed >= 0 /\ elapsed \in from'[c] .. elapsed'
      BY <1>0, <1>6, <3>1, <3>2 DEF Snapshot
    <3>3. ASSUME ts_pc[c] = "lower", from[c] >= 0 PROVE Latched(c)'
      BY <2>4, <3>2, <3>3 DEF Latched, Count
    <3>4. ASSUME ts_pc[c] = "upper", from[c] >= 0 PROVE LatchedTwice(c)'
      <4>1. PICK first \in from[c] .. elapsed : lower[c] = Count(first) % Half
        BY <3>1, <3>4 DEF Snapshot, LatchedTwice
      <4>2. first \in from'[c] .. elapsed' /\ elapsed \in first .. elapsed'
        BY <1>0, <1>6, <3>1, <4>1
      <4>3. lower'[c] = Count(first) % Half /\ counter_snapshot' = Count(elapsed)
        BY <2>4, <3>1, <3>2, <3>4, <4>1
      <4> QED BY <4>2, <4>3 DEF LatchedTwice, Count
    <3>5. ts_pc[c] = "upper" => torn'
      BY <1>0, <2>1, <2>7
    <3>6. ts_pc[c] \in {"lower", "upper"} => from'[c] <= elapsed'
      BY <1>0, <1>6, <3>1 DEF Snapshot
    <3> QED BY <2>7, <3>1, <3>3, <3>4, <3>5, <3>6 DEF Snapshot
  <2>8. ASSUME NEW c \in Users PROVE Snapshot(c)'
    <3>1. CASE c # u /\ c = "handler"
      BY <1>7, <3>1 DEF Snapshot
    <3> QED BY <1>0, <2>6, <2>7, <3>1
  <2> QED BY <1>1, <1>3, <1>5, <2>5, <2>8 DEF StampInv
<1>9. CASE ReadLower(u)
  <2>1. /\ ts_pc[u] = "lower" /\ ts_pc'[u] = "upper"
        /\ lower' = [lower EXCEPT ![u] = counter_snapshot % Half]
        /\ from' = from /\ result' = result /\ torn' = torn
    BY <1>0, <1>9 DEF ReadLower, Goto, At
  <2>2. counter_snapshot' = counter_snapshot
    BY <1>0, <1>2, <2>1 DEF Clock, NoAccess, alt_timestamp, At
  <2>3. /\ lower'[u] = counter_snapshot % Half /\ lower' \in [Users -> Int]
        /\ \A c \in Users : c # u => lower'[c] = lower[c]
    <3>1. counter_snapshot % Half \in Int
      BY <1>0, Halves
    <3> QED BY <1>0, <2>1, <3>1
  <2>4. StampTypes' /\ StampAnswers'
    BY <1>0, <1>1, <1>4, <2>1, <2>3
    DEF StampInv, StampTypes, StampAnswers, CurrentCount, RollOverIsZero, Answered
  <2>5. Snapshot(u)'
    <3>1. from[u] <= elapsed /\ from[u] \in -1 .. Full + 1
          /\ (from[u] >= 0 => Latched(u))
      BY <1>0, <2>1 DEF StampInv, Snapshot
    <3>2. ASSUME from[u] >= 0 PROVE LatchedTwice(u)'
      <4>1. PICK last \in from[u] .. elapsed : counter_snapshot = Count(last)
        BY <3>1, <3>2 DEF Latched
      <4>2. last \in from'[u] .. elapsed' /\ last \in last .. elapsed'
        BY <1>0, <1>6, <2>1, <3>1, <4>1
      <4>3. lower'[u] = Count(last) % Half /\ counter_snapshot' = Count(last)
        BY <2>2, <2>3, <4>1
      <4> QED BY <4>2, <4>3 DEF LatchedTwice, Count
    <3> QED BY <1>0, <1>6, <2>1, <2>2, <2>3, <3>1, <3>2 DEF Snapshot
  <2>6. ASSUME NEW c \in Users PROVE Snapshot(c)'
    <3>1. CASE c # u
      BY <1>4, <1>5, <1>6, <2>1, <2>2, <2>3, <2>4, <3>1, SnapshotStays DEF StampInv
    <3> QED BY <2>5, <3>1
  <2> QED BY <1>1, <1>3, <1>5, <2>4, <2>6 DEF StampInv
<1>10. CASE ReadUpper(u)
  <2>1. /\ ts_pc[u] = "upper" /\ ts_pc'[u] = "idle"
        /\ lower' = [lower EXCEPT ![u] = 0] /\ from' = [from EXCEPT ![u] = 0]
        /\ torn' = (torn /\ u = "handler")
        /\ result' = [value |-> Full - (Half * (counter_snapshot \div Half) + lower[u]),
                      from |-> from[u], to |-> elapsed,
                      torn |-> torn /\ u = "program"]
    BY <1>0, <1>10 DEF ReadUpper, Goto, At
  <2>2. counter_snapshot' = counter_snapshot
    BY <1>0, <1>2, <2>1 DEF Clock, NoAccess, alt_timestamp, At
  <2>3. lower' \in [Users -> Int] /\ from' \in [Users -> -1 .. Full + 1]
        /\ \A c \in Users : c # u => lower'[c] = lower[c] /\ from'[c] = from[c]
    BY <1>0, <2>1
  <2>4. PICK f \in -1 .. Full + 1, low \in Int, v \in Int, two \in BOOLEAN :
          /\ f = from[u] /\ low = lower[u] /\ (two <=> torn /\ u = "program")
          /\ v = Full - (Half * (counter_snapshot \div Half) + low)
          /\ result' = [value |-> v, from |-> f, to |-> elapsed, torn |-> two]
    <3>1. PICK h \in 0 .. Half - 1 : h = counter_snapshot \div Half
      BY <1>0, Halves
    <3>2. Half * h \in Int /\ lower[u] \in Int /\ from[u] \in -1 .. Full + 1
      BY <1>0
    <3>3. Full - (Half * (counter_snapshot \div Half) + lower[u]) \in Int
      BY <3>1, <3>2
    <3>4. (torn /\ u = "program") \in BOOLEAN
      OBVIOUS
    <3> QED BY <2>1, <3>2, <3>3, <3>4
  <2>6. /\ f <= elapsed /\ (f >= 0 => LatchedTwice(u))
        /\ ~two => low = counter_snapshot % Half
    BY <1>0, <2>1, <2>4 DEF StampInv, Snapshot
  <2>7. ASSUME f >= 0
        PROVE  /\ elapsed <= Full => v \in f .. elapsed + (IF two THEN Half - 1 ELSE 0)
               /\ f > Full => v = 0
    <3>0. PICK first \in f .. elapsed : \E last \in first .. elapsed :
            low = Count(first) % Half /\ counter_snapshot = Count(last)
      BY <2>4, <2>6, <2>7 DEF LatchedTwice
    <3>1. PICK last \in first .. elapsed :
            low = Count(first) % Half /\ counter_snapshot = Count(last)
      BY <3>0
    <3>2. first \in 0 .. Full + 1 /\ last \in first .. Full + 1
      BY <1>0, <2>7, <3>1
    <3>3. v = Full - (Half * (Count(last) \div Half) + low)
      BY <2>4, <3>1
    <3>4. /\ last <= Full => v \in first .. last + (Half - 1)
          /\ last <= Full /\ low = Count(last) % Half => v = last
          /\ first > Full => v = 0
      BY <3>1, <3>2, <3>3, HalvesOfTwo
    <3>5. ~two => low = Count(last) % Half
      BY <2>6, <3>1
    <3> QED BY <1>0, <2>4, <2>7, <3>1, <3>2, <3>4, <3>5
  <2>8. StampTypes' /\ StampAnswers'
    <3>1. StampTypes'
      BY <1>0, <1>1, <1>4, <2>1, <2>3, <2>4 DEF StampTypes
    <3> QED BY <1>0, <2>4, <2>7, <3>1
            DEF StampAnswers, CurrentCount, RollOverIsZero, Answered
  <2>9. ASSUME NEW c \in Users PROVE Snapshot(c)'
    <3>1. CASE c # u
      BY <1>0, <1>4, <1>5, <1>6, <2>1, <2>2, <2>3, <2>8, <3>1, SnapshotStays
      DEF StampInv
    <3> QED BY <2>1, <3>1 DEF Snapshot
  <2> QED BY <1>1, <1>3, <1>5, <2>8, <2>9 DEF StampInv
<1> QED BY <1>8, <1>9, <1>10

(* A cycle of the clock in which its registers stay: at a period's end     *)
(* the interrupt asks, if it did not before and is not cleared.            *)
LEMMA ClockGoesOn ==
  ASSUME TimerTypeOK, ClockInv, Passes, NEW op \in {NoAccess, WriteStatus}, Clock(op)
  PROVE  /\ UNCHANGED <<control_register, counter_is_running, period_l_register,
                        period_h_register>>
         /\ ~force_reload'
         /\ internal_counter' = IF ~counter_is_running THEN internal_counter
                                ELSE IF internal_counter = 0 THEN Load
                                ELSE internal_counter - 1
         /\ delayed_zero' <=> internal_counter = 0
         /\ timeout_occurred' <=>
              op = NoAccess /\ (timeout_occurred \/ internal_counter = 0)
         /\ Timeout <=> internal_counter = 0
<1>1. op.reg = (IF op = NoAccess THEN "none" ELSE "status")
  BY DEF NoAccess, WriteStatus
<1>2. /\ op.reg # "control" /\ op.reg \notin {"periodL", "periodH"}
      /\ op.reg # "status" <=> op = NoAccess
  BY <1>1
<1>3. ~force_reload /\ (delayed_zero => internal_counter # 0)
      /\ Half * period_h_register + period_l_register = Load
      /\ (~counter_is_running \/ control_register.continuous)
  BY DEF ClockInv, RunsRound
<1>4. /\ UNCHANGED <<control_register, period_l_register, period_h_register>>
      /\ ~force_reload'
  BY <1>2 DEF Clock
<1>5. counter_is_running' = counter_is_running
  <2>1. counter_is_running' =
          (counter_is_running /\ ~force_reload
             /\ ~(internal_counter = 0 /\ ~control_register.continuous))
    BY <1>2, Zenon DEF Clock
  <2> QED BY <1>3, <2>1 DEF TimerTypeOK
<1>6. internal_counter' = IF ~counter_is_running THEN internal_counter
                          ELSE IF internal_counter = 0 THEN Load
                          ELSE internal_counter - 1
  <2>1. internal_counter' =
          IF ~counter_is_running /\ ~force_reload THEN internal_counter
          ELSE IF internal_counter = 0 \/ force_reload
               THEN Half * period_h_register + period_l_register
          ELSE internal_counter - 1
    BY Zenon DEF Clock
  <2> QED BY <1>3, <2>1, Zenon
<1>7. delayed_zero' = (internal_counter = 0)
  BY DEF Clock
<1>8. timeout_occurred' =
        (op.reg # "status" /\ (timeout_occurred \/ (internal_counter = 0 /\ ~delayed_zero)))
  BY DEF Clock
<1>9. timeout_occurred' <=>
        op = NoAccess /\ (timeout_occurred \/ internal_counter = 0)
  BY <1>2, <1>3, <1>8
<1> QED BY <1>3, <1>4, <1>5, <1>6, <1>7, <1>9 DEF Timeout

(* In such a cycle nothing is lost unless an interrupt waits too long.     *)
LEMMA ClockStays ==
  ASSUME TimerTypeOK, ClockInv, Passes, NEW op \in {NoAccess, WriteStatus}, Clock(op),
         state' \in {"off", "starting", "program", "clear", "read", "tick"},
         state' = "off" <=> state = "off", nticks' \in Nat,
         state = "off" \/ state' = "clear" => op = NoAccess,
         state' = "clear" => irq
  PROVE  /\ TimerTypeOK' /\ RunsRound' /\ Waited' /\ periods' \in Nat
         /\ overrun' \in BOOLEAN /\ late' \in 0 .. Load
         /\ ~overrun' =>
              /\ ~overrun
              /\ op = NoAccess => periods' + (IF irq THEN 1 ELSE 0)
                                    = periods + (IF irq' THEN 1 ELSE 0)
              /\ op = WriteStatus /\ irq => periods' = periods /\ ~irq'
<1> USE TimerConstants
<1>1. op \in Access /\ NoAccess # WriteStatus
  BY DEF Access, NoAccess, WriteStatus
<1>2. TimerTypeOK'
  BY <1>1, ClockTypes
<1>3. /\ UNCHANGED <<control_register, counter_is_running, period_l_register,
                     period_h_register>>
      /\ ~force_reload'
      /\ internal_counter' = IF ~counter_is_running THEN internal_counter
                             ELSE IF internal_counter = 0 THEN Load
                             ELSE internal_counter - 1
      /\ delayed_zero' <=> internal_counter = 0
      /\ timeout_occurred' <=>
           op = NoAccess /\ (timeout_occurred \/ internal_counter = 0)
      /\ Timeout <=> internal_counter = 0
  BY ClockGoesOn
<1>4. /\ internal_counter \in 0 .. Load /\ late \in 0 .. Load /\ periods \in Nat
      /\ overrun \in BOOLEAN /\ (state = "clear" => timeout_occurred)
      /\ irq /\ ~overrun => late = Load - internal_counter
      /\ Half * period_h_register + period_l_register = Load
      /\ state = "off" =>
           internal_counter = Load /\ ~counter_is_running /\ ~timeout_occurred
      /\ state # "off" =>
           /\ counter_is_running
           /\ control_register = [interrupt_enable |-> TRUE, continuous |-> TRUE]
  BY DEF ClockInv, RunsRound, Waited
<1>5. /\ periods' = IF internal_counter = 0 THEN periods + 1 ELSE periods
      /\ late' = IF ~irq \/ late = Load THEN 0 ELSE late + 1
      /\ overrun' <=> overrun \/ late = Load
      /\ overrun' \in BOOLEAN
  BY <1>3, <1>4 DEF Passes
<1>6. periods' \in Nat /\ late' \in 0 .. Load
  BY <1>4, <1>5
<1>7. RunsRound'
  <2>1. internal_counter' \in 0 .. Load /\ (delayed_zero' => internal_counter' # 0)
    BY <1>3, <1>4
  <2>2. Half * period_h_register' + period_l_register' = Load
    BY <1>3, <1>4
  <2>3. state' = "off" =>
          internal_counter' = Load /\ ~counter_is_running' /\ ~timeout_occurred'
    BY <1>3, <1>4
  <2>4. state' # "off" =>
          /\ counter_is_running'
          /\ control_register' = [interrupt_enable |-> TRUE, continuous |-> TRUE]
    BY <1>3, <1>4
  <2> QED BY <1>3, <2>1, <2>2, <2>3, <2>4 DEF RunsRound
<1>8. irq <=> timeout_occurred /\ state # "off"
  BY <1>4 DEF irq
<1>9. irq' <=> timeout_occurred' /\ state # "off"
  BY <1>3, <1>4 DEF irq
<1>10. ASSUME ~overrun', irq PROVE internal_counter # 0 /\ ~overrun
  BY <1>4, <1>5, <1>10
<1>11. Waited'
  <2>1. state' = "clear" => timeout_occurred'
    BY <1>3, <1>8
  <2>2. ASSUME irq', ~overrun' PROVE late' = Load - internal_counter'
    <3>1. op = NoAccess /\ state # "off" /\ counter_is_running
      BY <1>3, <1>4, <1>9, <2>2
    <3>2. CASE irq
      <4>1. internal_counter # 0 /\ ~overrun /\ late = Load - internal_counter
        BY <1>4, <1>10, <2>2, <3>2
      <4>2. late # Load /\ late' = late + 1 /\ internal_counter' = internal_counter - 1
        BY <1>3, <1>4, <1>5, <3>1, <3>2, <4>1
      <4> QED BY <1>4, <4>1, <4>2
    <3>3. CASE ~irq
      <4>1. internal_counter = 0
        BY <1>3, <1>8, <1>9, <2>2, <3>1, <3>3
      <4>2. late' = 0 /\ internal_counter' = Load
        BY <1>3, <1>5, <3>1, <3>3, <4>1
      <4> QED BY <4>2
    <3> QED BY <3>2, <3>3
  <2> QED BY <2>1, <2>2 DEF Waited
<1>12. ASSUME ~overrun', op = NoAccess
       PROVE  periods' + (IF irq THEN 1 ELSE 0) = periods + (IF irq' THEN 1 ELSE 0)
  <2>1. CASE state = "off"
    BY <1>4, <1>5, <1>8, <1>9, <2>1
  <2>2. CASE state # "off" /\ irq
    BY <1>3, <1>4, <1>5, <1>8, <1>9, <1>10, <1>12, <2>2
  <2>3. CASE state # "off" /\ ~irq
    BY <1>3, <1>4, <1>5, <1>8, <1>9, <1>12, <2>3
  <2> QED BY <2>1, <2>2, <2>3
<1>13. ASSUME ~overrun', op = WriteStatus, irq PROVE periods' = periods /\ ~irq'
  BY <1>1, <1>3, <1>5, <1>9, <1>10, <1>13
<1> QED BY <1>2, <1>5, <1>6, <1>7, <1>11, <1>12, <1>13

LEMMA ClockStep ==
  ASSUME TimerTypeOK, ClockInv, SystemClockNext
  PROVE  TimerTypeOK' /\ ClockInv'
<1> USE TimerConstants
<1>1. /\ state \in {"off", "starting", "program", "clear", "read", "tick"}
      /\ nticks \in Nat /\ periods \in Nat /\ EveryPeriodTicks
  BY DEF ClockInv
<1>2. CASE alt_avalon_timer_sc_init
  <2> DEFINE bits == {"ITO", "CONT", "START"}
  <2>1. /\ state = "off" /\ state' = "starting" /\ nticks' = nticks /\ Passes
        /\ Clock(WriteControl(bits)) /\ WriteControl(bits) \in Access
    BY <1>2 DEF alt_avalon_timer_sc_init, Access
  <2>2. TimerTypeOK'
    BY <2>1, ClockTypes
  <2>3. /\ internal_counter = Load /\ ~counter_is_running /\ ~timeout_occurred
        /\ ~force_reload /\ late \in 0 .. Load /\ overrun \in BOOLEAN
        /\ Half * period_h_register + period_l_register = Load
    BY <2>1 DEF ClockInv, RunsRound
  <2>4. /\ control_register' = [interrupt_enable |-> TRUE, continuous |-> TRUE]
        /\ counter_is_running' = TRUE /\ ~force_reload'
        /\ period_l_register' = period_l_register
        /\ period_h_register' = period_h_register
    <3>1. ("ITO" \in bits) = TRUE /\ ("CONT" \in bits) = TRUE /\ "START" \in bits
      OBVIOUS
    <3> HIDE DEF bits
    <3>2. /\ control_register' = [interrupt_enable |-> "ITO" \in bits,
                                  continuous |-> "CONT" \in bits]
          /\ counter_is_running' = TRUE /\ ~force_reload'
          /\ period_l_register' = period_l_register
          /\ period_h_register' = period_h_register
      BY <2>1, <3>1, ControlWritten
    <3> QED BY <3>1, <3>2, Zenon
  <2>5. internal_counter' = Load
    BY <2>1, <2>3, Zenon DEF Clock
  <2>6. ~delayed_zero' /\ ~timeout_occurred'
    <3>1. internal_counter # 0
      BY <2>3
    <3>2. delayed_zero' = (internal_counter = 0)
      BY <2>1 DEF Clock
    <3>3. timeout_occurred' = FALSE
      BY <2>1, <2>3, <3>1, Zenon DEF Clock
    <3> QED BY <3>1, <3>2, <3>3
  <2>7. ~irq /\ ~irq' /\ periods' = periods /\ late' = 0 /\ overrun' \in BOOLEAN
        /\ (~overrun' => ~overrun)
    <3>1. ~irq /\ ~irq' /\ ~Timeout
      BY <2>3, <2>6 DEF irq, Timeout
    <3> QED BY <2>1, <2>3, <3>1 DEF Passes
  <2>8. RunsRound'
    BY <2>1, <2>3, <2>4, <2>5, <2>6 DEF RunsRound
  <2>9. Waited'
    BY <2>1, <2>7 DEF Waited
  <2>10. EveryPeriodTicks'
    BY <1>1, <2>1, <2>7 DEF EveryPeriodTicks
  <2> QED BY <1>1, <2>1, <2>2, <2>7, <2>8, <2>9, <2>10 DEF ClockInv
<1>3. CASE Register \/ Waits \/ Interrupt \/ ReadControl \/ CountTick
  <2>1. /\ Clock(NoAccess) /\ Passes
        /\ state' = "off" <=> state = "off"
        /\ state' \in {"off", "starting", "program", "clear", "read", "tick"}
        /\ nticks' = (IF CountTick THEN nticks + 1 ELSE nticks)
    BY <1>1, <1>3 DEF Register, Waits, Interrupt, ReadControl, CountTick
  <2>2. nticks' + (IF state' \in {"read", "tick"} THEN 1 ELSE 0)
          = nticks + (IF state \in {"read", "tick"} THEN 1 ELSE 0)
    BY <1>1, <1>3, <2>1
    DEF Register, Waits, Interrupt, ReadControl, CountTick
  <2>3. nticks' \in Nat
    BY <1>1, <2>1
  <2>4. state' = "clear" => irq
    <3>1. state = "clear" => irq
      BY DEF ClockInv, RunsRound, Waited, irq
    <3> QED BY <1>3, <3>1 DEF Register, Waits, Interrupt, ReadControl, CountTick
  <2>5. /\ TimerTypeOK' /\ RunsRound' /\ Waited' /\ periods' \in Nat
        /\ overrun' \in BOOLEAN /\ late' \in 0 .. Load
        /\ ~overrun' =>
             /\ ~overrun
             /\ periods' + (IF irq THEN 1 ELSE 0) = periods + (IF irq' THEN 1 ELSE 0)
    BY <2>1, <2>3, <2>4, ClockStays
  <2>6. EveryPeriodTicks'
    <3> DEFINE i == IF irq THEN 1 ELSE 0
               h == IF state \in {"read", "tick"} THEN 1 ELSE 0
    <3>1. ~overrun' => periods = nticks + i + h
      BY <1>1, <2>5 DEF EveryPeriodTicks
    <3>2. i \in Nat /\ h \in Nat /\ i' \in Nat /\ h' \in Nat
      OBVIOUS
    <3>3. nticks' + h' = nticks + h /\ (~overrun' => periods' + i = periods + i')
      BY <2>2, <2>5
    <3>4. PICK j \in Nat, k \in Nat, m \in Nat, n \in Nat, p \in Nat :
            j = i /\ k = h /\ m = i' /\ n = h' /\ p = periods'
      BY <2>5, <3>2
    <3> HIDE DEF i, h
    <3>5. ASSUME ~overrun' PROVE p = nticks' + m + n
      <4>1. periods = nticks + j + k
        BY <3>1, <3>4, <3>5
      <4>2. nticks' + n = nticks + k /\ p + j = periods + m
        BY <3>3, <3>4, <3>5
      <4>3. nticks \in Nat /\ periods \in Nat /\ nticks' \in Nat
        BY <1>1, <2>3
      <4>4. p = nticks + j + k + m - j
        BY <4>1, <4>2, <4>3
      <4>5. PICK y \in Nat, z \in Nat : y = nticks' /\ z = nticks
        BY <4>3
      <4>6. y + n = z + k /\ p = z + j + k + m - j
        BY <4>2, <4>4, <4>5
      <4>7. p = y + m + n
        BY <4>6
      <4> QED BY <4>5, <4>7
    <3> QED BY <3>4, <3>5 DEF EveryPeriodTicks, i, h
  <2> QED BY <2>1, <2>3, <2>5, <2>6 DEF ClockInv
<1>4. CASE Clear
  <2>1. /\ Clock(WriteStatus) /\ Passes /\ state = "clear" /\ state' = "read"
        /\ nticks' = nticks
    BY <1>4 DEF Clear
  <2>2. irq
    BY <2>1 DEF ClockInv, RunsRound, Waited, irq
  <2>3. /\ TimerTypeOK' /\ RunsRound' /\ Waited' /\ periods' \in Nat
        /\ overrun' \in BOOLEAN /\ late' \in 0 .. Load
        /\ ~overrun' => ~overrun /\ periods' = periods /\ ~irq'
    BY <1>1, <2>1, <2>2, ClockStays
  <2>4. EveryPeriodTicks'
    BY <1>1, <2>1, <2>2, <2>3 DEF EveryPeriodTicks
  <2> QED BY <1>1, <2>1, <2>3, <2>4 DEF ClockInv
<1> QED BY <1>2, <1>3, <1>4 DEF SystemClockNext

(* All of them.                                                            *)
ClocksInv == WallInv /\ BusyInv /\ TimersInv

LEMMA ClocksInitInv == ClocksInit => ClocksInv
<1> SUFFICES ASSUME ClocksInit PROVE ClocksInv
  OBVIOUS
<1> USE TimerConstants
<1>1. WallInv /\ BusyInv
  BY WallInitInv, BusyInitInv DEF ClocksInit
<1>2. /\ Load % Half \in 0 .. Half - 1 /\ Load \div Half \in 0 .. Half - 1
      /\ Half * (Load \div Half) + (Load % Half) = Load
  <2>1. Load \in 0 .. Full
    OBVIOUS
  <2> QED BY <2>1, Halves
<1>3. TimerTypeOK
  <2>1. 0 \in 0 .. Full /\ Load \in 0 .. Full
    OBVIOUS
  <2> QED BY <1>2, <2>1 DEF ClocksInit, TimestampInit, TimerInit, TimerTypeOK
<1>4. NoClockInv
  BY DEF ClocksInit, TimestampInit, TimerInit, SystemClockInit, NoClockInv
<1>5. StampInv
  <2>1. /\ elapsed = -1 /\ result = Unanswered /\ ts_registered \in BOOLEAN
        /\ ts_pc = [u \in Users |-> "idle"] /\ lower = [u \in Users |-> 0]
        /\ from = [u \in Users |-> 0] /\ torn = FALSE
    BY DEF ClocksInit, TimestampInit
  <2>2. \A u \in Users : ts_pc[u] = "idle"
    BY <2>1
  <2>3. ts_pc["program"] = "idle"
    BY <2>2 DEF Users
  <2>4. StampTypes
    <3>1. 0 \in -1 .. Full + 1 /\ Unanswered \in
            [value : Int, from : Int, to : Int, torn : BOOLEAN]
      BY DEF Unanswered
    <3>2. "idle" \in StampPc /\ 0 \in Int
      BY DEF StampPc
    <3>3. ts_pc \in [Users -> StampPc]
      BY <2>1, <3>2, Zenon
    <3>4. lower \in [Users -> Int]
      BY <2>1, <3>2, Zenon
    <3>5. from \in [Users -> -1 .. Full + 1]
      BY <2>1, <3>1, Zenon
    <3> QED BY <2>1, <3>1, <3>3, <3>4, <3>5 DEF StampTypes
  <2>5. StampAnswers
    BY <2>1 DEF StampAnswers, CurrentCount, RollOverIsZero, Answered
  <2>6. CountDown
    BY <2>1, <2>3 DEF CountDown, Stopped
  <2>7. \A u \in Users : Snapshot(u)
    BY <2>2 DEF Snapshot
  <2> QED BY <2>1, <2>2, <2>4, <2>5, <2>6, <2>7 DEF StampInv
<1>6. ClockInv
  <2>1. /\ state = "off" /\ nticks = 0 /\ periods = 0 /\ late = 0 /\ overrun = FALSE
        /\ internal_counter = Load /\ counter_is_running = FALSE
        /\ force_reload = FALSE /\ delayed_zero = FALSE /\ timeout_occurred = FALSE
        /\ period_l_register = Load % Half /\ period_h_register = Load \div Half
    BY DEF ClocksInit, SystemClockInit, TimerInit
  <2>2. ~irq
    BY <2>1 DEF irq
  <2>3. RunsRound
    BY <1>2, <2>1 DEF RunsRound
  <2>4. Waited /\ EveryPeriodTicks
    BY <2>1, <2>2 DEF Waited, EveryPeriodTicks
  <2>5. late \in 0 .. Load
    BY <2>1
  <2> QED BY <2>1, <2>3, <2>4, <2>5 DEF ClockInv
<1>7. result = Unanswered /\ timer_of \in {"timestamp", "clock"}
  BY DEF ClocksInit, TimestampInit
<1> QED BY <1>1, <1>3, <1>4, <1>5, <1>6, <1>7 DEF ClocksInv, TimersInv

LEMMA TimersStay ==
  ASSUME TimersInv, UNCHANGED timersVars
  PROVE  TimersInv'
<1>1. /\ UNCHANGED <<timer_of, internal_counter, counter_is_running, force_reload,
                     period_l_register, period_h_register, counter_snapshot,
                     control_register, delayed_zero, timeout_occurred>>
      /\ UNCHANGED <<ts_registered, ts_pc, lower, from, torn, result, elapsed>>
      /\ UNCHANGED <<state, nticks, periods, late, overrun>>
  BY DEF timersVars, tsVars, timerVars, driver, countVars
<1>2. TimerTypeOK'
  BY <1>1 DEF TimersInv, TimerTypeOK
<1>3. StampInv => StampInv'
  BY <1>1 DEF StampInv, StampTypes, CountDown, Stopped, Snapshot, Latched, LatchedTwice,
              Count, StampAnswers, CurrentCount, RollOverIsZero, Answered
<1>4. NoClockInv => NoClockInv'
  BY <1>1 DEF NoClockInv
<1>5. ClockInv => ClockInv'
  BY <1>1 DEF ClockInv, RunsRound, Waited, EveryPeriodTicks, irq
<1> QED BY <1>1, <1>2, <1>3, <1>4, <1>5 DEF TimersInv

LEMMA TimersStep ==
  ASSUME TimersInv, TimersNext
  PROVE  TimersInv'
<1>1. CASE timer_of = "timestamp" /\ TimestampNext /\ UNCHANGED <<timer_of, countVars>>
  <2>1. TimerTypeOK /\ StampInv /\ NoClockInv
    BY <1>1 DEF TimersInv
  <2>2. /\ StampInv' /\ TimerTypeOK'
        /\ control_register' = control_register
             \/ control_register' = [interrupt_enable |-> FALSE, continuous |-> FALSE]
    BY <1>1, <2>1, IdleStamp, StopStamp, ReadStamp DEF TimestampNext
  <2>3. NoClockInv'
    BY <1>1, <2>1, <2>2 DEF NoClockInv, countVars
  <2> QED BY <1>1, <2>2, <2>3 DEF TimersInv
<1>2. CASE timer_of = "clock" /\ SystemClockNext /\ UNCHANGED <<timer_of, stampVars>>
  <2>1. TimerTypeOK' /\ ClockInv'
    BY <1>2, ClockStep DEF TimersInv
  <2> QED BY <1>2, <2>1 DEF TimersInv, stampVars, driver
<1> QED BY <1>1, <1>2 DEF TimersNext

LEMMA ClocksStep ==
  ASSUME ClocksInv, [ClocksNext]_clocksVars
  PROVE  ClocksInv'
<1>1. WallInv /\ BusyInv /\ TimersInv
  BY DEF ClocksInv
<1>2. [WallNext]_wallVars /\ [BusyNext]_busyVars
      /\ (TimersNext \/ UNCHANGED timersVars)
  BY DEF ClocksNext, clocksVars
<1>3. WallInv'
  BY <1>1, <1>2, WallStep
<1>4. BusyInv'
  BY <1>1, <1>2, BusyStep
<1>5. TimersInv'
  BY <1>1, <1>2, TimersStep, TimersStay
<1> QED BY <1>3, <1>4, <1>5 DEF ClocksInv

LEMMA ClocksInvRight == ClocksInv => TimeRight
<1> SUFFICES ASSUME ClocksInv PROVE TimeRight
  OBVIOUS
<1>1. WallTypeOK /\ WithinSecond /\ BusyTypeOK /\ DelayBounds
  BY WallRight DEF ClocksInv, BusyInv
<1>2. CASE StampInv /\ NoClockInv
  <2>1. EveryPeriodTicks
    BY <1>2 DEF NoClockInv, EveryPeriodTicks, irq
  <2>2. CurrentCount /\ RollOverIsZero
    BY <1>2 DEF StampInv, StampAnswers
  <2> QED BY <1>1, <2>1, <2>2 DEF TimeRight
<1>3. CASE ClockInv /\ result = Unanswered
  <2>1. EveryPeriodTicks
    BY <1>3 DEF ClockInv
  <2>2. CurrentCount /\ RollOverIsZero
    BY <1>3 DEF CurrentCount, RollOverIsZero, Answered
  <2> QED BY <1>1, <2>1, <2>2 DEF TimeRight
<1> QED BY <1>2, <1>3 DEF ClocksInv, TimersInv

(* Until the count of ticks wraps, gettimeofday() answers what has elapsed *)
(* since the time was set, or less than a second more or less when it was  *)
(* set late.  A delay is at least as long as it was asked for, and longer  *)
(* by what its loops' counts come to.  A timestamp is a time between the   *)
(* call and its return, or later by less than a lower half when a handler  *)
(* takes one in between; after the roll-over it is 0.  The system clock    *)
(* counts every period of its timer once.  So it is however the program's  *)
(* steps, the handlers, the ticks and the cycles of the timer fall.        *)
THEOREM TimeAlwaysRight == ClocksSpec => []TimeRight
<1>1. ClocksInv /\ [ClocksNext]_clocksVars => ClocksInv'
  BY ClocksStep
<1> QED BY <1>1, ClocksInitInv, ClocksInvRight, PTL DEF ClocksSpec
-----------------------------------------------------------------------------
(* The log.                                                                *)

Kinds == {"boot", "startup", "write"} \cup HandlerKinds
Letter == [kind : Kinds, c : STRING \cup {"(", ")", "nl", "cr", "D"}]
Printing == [rest : Seq(Letter) \ {<< >>}, ready : BOOLEAN, handler : BOOLEAN]

LogTypes ==
  /\ ALT_LOG_FLAGS \in Levels /\ space \in 0 .. Depth /\ lost \in Nat
  /\ out \in Seq(Letter) /\ prints \in Seq(Printing)
  /\ sys_clk_count \in 0 .. Interval /\ alarm_left \in 0 .. AlarmTicks + 1

(* A handler prints on top of the program, and no other on top of it: what *)
(* it saw of the FIFO is still so when it writes.                          *)
OneHandler ==
  /\ Len(prints) <= 2 /\ (Len(prints) = 2 => prints[1].handler)
  /\ \A k \in 1 .. Len(prints) : prints[k].handler => k = 1
  /\ \A k \in 1 .. Len(prints) : prints[k].handler /\ prints[k].ready => space > 0

(* Nothing is printed that must not be.                                    *)
Printable(s) == \A k \in 1 .. Len(s) : s[k].kind \in On /\ s[k].c # "^D"
PrintsRight ==
  /\ Printable(out)
  /\ \A k \in 1 .. Len(prints) : Printable(prints[k].rest)
  /\ \A k \in 1 .. Len(prints) : ~prints[k].handler =>
       \A i \in 1 .. Len(prints[k].rest) : prints[k].rest[i].kind \notin HandlerKinds

(* The log, with what a handler still has to print, has the messages of    *)
(* handlers whole.                                                         *)
Opens(x) == x.kind \in HandlerKinds /\ x.c = "("
WholeIn(s) ==
  \A k \in 1 .. Len(s) : Opens(s[k]) =>
    k < Len(s) /\ s[k + 1] = [kind |-> s[k].kind, c |-> ")"]
Handling == prints # << >> /\ prints[1].handler
Expected == IF Handling THEN out \o prints[1].rest ELSE out

LogInv == LogTypes /\ OneHandler /\ PrintsRight /\ WholeIn(Expected)

LEMMA LogInitInv == LogInit => LogInv
  BY LogAssumption DEF LogInit, LogInv, LogTypes, OneHandler, PrintsRight, Printable,
     WholeIn, Expected, Handling

LEMMA WholePair ==
  ASSUME NEW kind \in Kinds
  PROVE  LET m == Message(kind)
         IN  m \in Seq(Letter) /\ Printable(m) /\ WholeIn(m) /\ Len(m) \in {0, 2}
             /\ \A k \in 1 .. Len(m) : m[k].kind = kind
<1>1. CASE kind \in On
  <2> DEFINE p == [kind |-> kind, c |-> "("]
             q == [kind |-> kind, c |-> ")"]
  <2>1. Message(kind) = <<p, q>>
    BY <1>1 DEF Message
  <2>2. p \in Letter /\ q \in Letter
    BY DEF Letter
  <2> HIDE DEF p, q
  <2>4. <<p, q>> \in Seq(Letter) /\ Len(<<p, q>>) = 2
    BY <2>2
  <2>3. ~Opens(q) /\ p.c # "^D" /\ q.c # "^D"
    BY DEF Opens, p, q
  <2>5. p.kind = kind /\ q.kind = kind /\ q = [kind |-> p.kind, c |-> ")"]
    BY DEF p, q
  <2> QED
    BY <1>1, <2>1, <2>3, <2>4, <2>5 DEF Printable, WholeIn
<1>2. CASE kind \notin On
  BY <1>2 DEF Message, Printable, WholeIn
<1> QED
  BY <1>1, <1>2

LEMMA WholeTogether ==
  ASSUME NEW s \in Seq(Letter), NEW t \in Seq(Letter), WholeIn(s), WholeIn(t)
  PROVE  WholeIn(s \o t)
<1> SUFFICES ASSUME NEW k \in 1 .. Len(s \o t), Opens((s \o t)[k])
             PROVE  /\ k < Len(s \o t)
                    /\ (s \o t)[k + 1] = [kind |-> (s \o t)[k].kind, c |-> ")"]
  BY DEF WholeIn
<1>1. Len(s) \in Nat /\ Len(t) \in Nat /\ Len(s \o t) = Len(s) + Len(t)
  OBVIOUS
<1>2. CASE k <= Len(s)
  <2>1. (s \o t)[k] = s[k] /\ k \in 1 .. Len(s)
    BY <1>1, <1>2
  <2>2. k < Len(s) /\ s[k + 1] = [kind |-> s[k].kind, c |-> ")"]
    BY <2>1 DEF WholeIn
  <2>3. (s \o t)[k + 1] = s[k + 1]
    BY <1>1, <2>1, <2>2
  <2> QED
    BY <1>1, <2>1, <2>2, <2>3
<1>3. CASE k > Len(s)
  <2>1. (s \o t)[k] = t[k - Len(s)] /\ k - Len(s) \in 1 .. Len(t)
    BY <1>1, <1>3
  <2>2. k - Len(s) < Len(t)
        /\ t[k - Len(s) + 1] = [kind |-> t[k - Len(s)].kind, c |-> ")"]
    BY <2>1 DEF WholeIn
  <2>3. (s \o t)[k + 1] = t[k - Len(s) + 1]
    BY <1>1, <1>3, <2>1, <2>2
  <2> QED
    BY <1>1, <2>1, <2>2, <2>3
<1>4. k <= Len(s) \/ k > Len(s)
  BY <1>1
<1> QED
  BY <1>2, <1>3, <1>4

LEMMA PrintableTogether ==
  ASSUME NEW s \in Seq(Letter), NEW t \in Seq(Letter), Printable(s), Printable(t)
  PROVE  Printable(s \o t)
<1> SUFFICES ASSUME NEW k \in 1 .. Len(s \o t)
             PROVE  (s \o t)[k].kind \in On /\ (s \o t)[k].c # "^D"
  BY DEF Printable
<1>1. Len(s) \in Nat /\ Len(t) \in Nat /\ Len(s \o t) = Len(s) + Len(t)
  OBVIOUS
<1>2. CASE k <= Len(s)
  <2>1. (s \o t)[k] = s[k] /\ k \in 1 .. Len(s)
    BY <1>1, <1>2
  <2> QED
    BY <2>1 DEF Printable
<1>3. CASE k > Len(s)
  <2>1. (s \o t)[k] = t[k - Len(s)] /\ k - Len(s) \in 1 .. Len(t)
    BY <1>1, <1>3
  <2> QED
    BY <2>1 DEF Printable
<1> QED
  BY <1>1, <1>2, <1>3

(* A call begins: a handler's only if no other prints.                     *)
LEMMA Told ==
  ASSUME LogInv, LogTypes', UNCHANGED <<ALT_LOG_FLAGS, space, out>>,
         NEW msg \in Seq(Letter), msg # << >>, Printable(msg),
         NEW handler \in BOOLEAN, Tell(msg, handler),
         IF handler THEN Interruptible /\ WholeIn(msg) ELSE Quiet,
         ~handler => \A i \in 1 .. Len(msg) : msg[i].kind \notin HandlerKinds
  PROVE  LogInv'
<1> DEFINE p == [rest |-> msg, ready |-> FALSE, handler |-> handler]
<1>1. p \in Printing /\ prints' = <<p>> \o prints /\ prints \in Seq(Printing)
  BY DEF LogInv, Printing, Tell, LogTypes
<1>2. \A k \in 1 .. Len(prints) : ~prints[k].handler
  BY <1>1 DEF Interruptible, Quiet
<1>3. Len(prints) <= 1 /\ (~handler => Len(prints) = 0)
  <2>1. Len(prints) \in Nat /\ (Len(prints) = 2 => 1 \in 1 .. Len(prints))
    BY <1>1
  <2>2. Len(prints) # 2
    BY <1>2, <2>1 DEF LogInv, OneHandler
  <2>3. ~handler => Len(prints) = 0
    BY DEF Quiet
  <2>4. Len(prints) <= 2
    BY DEF LogInv, OneHandler
  <2> DEFINE n == Len(prints)
  <2> HIDE DEF n
  <2>5. n \in Nat /\ n # 2 /\ n <= 2
    BY <2>1, <2>2, <2>4 DEF n
  <2>6. n <= 1
    BY <2>5
  <2>7. Len(prints) <= 1
    BY <2>6 DEF n
  <2> QED
    BY <2>3, <2>7
<1> HIDE DEF p
<1>4. Len(prints') = Len(prints) + 1 /\ prints'[1] = p
      /\ \A k \in 2 .. Len(prints') :
           k - 1 \in 1 .. Len(prints) /\ prints'[k] = prints[k - 1]
  BY <1>1
<1>5. p.rest = msg /\ p.ready = FALSE /\ p.handler = handler
  BY DEF p
<1>6. OneHandler'
  <2>1. \A k \in 1 .. Len(prints') : prints'[k].handler => k = 1 /\ ~prints'[k].ready
    BY <1>1, <1>2, <1>4, <1>5
  <2>2. Len(prints') <= 2 /\ (Len(prints') = 2 => prints'[1].handler)
    BY <1>1, <1>3, <1>4, <1>5
  <2> QED
    BY <2>1, <2>2 DEF OneHandler
<1>7. On' = On
  BY DEF On
<1>8. PrintsRight'
  <2>1. Printable(out)' /\ Printable(msg)'
    BY <1>7 DEF LogInv, PrintsRight, Printable
  <2>2. \A k \in 1 .. Len(prints') : Printable(prints'[k].rest)
    BY <1>1, <1>4, <1>5 DEF LogInv, PrintsRight
  <2>3. \A k \in 1 .. Len(prints') : Printable(prints[k].rest)'
    BY <1>7, <2>2 DEF Printable
  <2>4. \A k \in 1 .. Len(prints') : ~prints'[k].handler =>
          \A i \in 1 .. Len(prints'[k].rest) :
            prints'[k].rest[i].kind \notin HandlerKinds
    BY <1>1, <1>4, <1>5 DEF LogInv, PrintsRight
  <2> QED
    BY <2>1, <2>3, <2>4 DEF LogInv, PrintsRight
<1>9. WholeIn(Expected)'
  <2>1. ~Handling /\ Expected = out
    BY <1>1, <1>2 DEF Handling, Expected
  <2>2. Expected' = IF handler THEN out \o msg ELSE out
    BY <1>1, <1>4, <1>5 DEF Expected, Handling
  <2>3. WholeIn(out) /\ out \in Seq(Letter)
    BY <2>1 DEF LogInv, LogTypes
  <2>4. CASE handler
    BY <2>2, <2>3, <2>4, WholeTogether DEF WholeIn
  <2>5. CASE ~handler
    BY <2>2, <2>3, <2>5 DEF WholeIn
  <2> QED
    BY <2>4, <2>5
<1> QED
  BY <1>6, <1>8, <1>9 DEF LogInv

LEMMA LogUndisturbed ==
  ASSUME LogInv, LogTypes', UNCHANGED <<ALT_LOG_FLAGS, out, prints>>, space' >= space
  PROVE  LogInv'
<1>1. On' = On
  BY DEF On
<1>2. OneHandler'
  BY DEF LogInv, OneHandler, LogTypes
<1>3. PrintsRight'
  BY <1>1 DEF LogInv, PrintsRight, Printable
<1>4. WholeIn(Expected)'
  BY DEF LogInv, WholeIn, Expected, Handling
<1> QED
  BY <1>2, <1>3, <1>4 DEF LogInv

LEMMA WaitReadyStep ==
  ASSUME LogInv, WaitReady
  PROVE  LogInv'
<1>1. prints \in Seq(Printing) /\ 1 \in 1 .. Len(prints) /\ space > 0
      /\ prints' = [prints EXCEPT ![1].ready = TRUE]
      /\ UNCHANGED <<ALT_LOG_FLAGS, space, out, lost, sys_clk_count, alarm_left>>
  BY DEF LogInv, LogTypes, WaitReady, Quiet, port, clock
<1> DEFINE p == prints[1]
           q == [p EXCEPT !.ready = TRUE]
<1>2. p \in Printing
  BY <1>1
<1>3. q \in Printing /\ q.rest = p.rest /\ q.handler = p.handler
  BY <1>2 DEF Printing
<1>4. prints' = [prints EXCEPT ![1] = q]
  BY <1>1
<1> HIDE DEF q
<1>5. prints' \in Seq(Printing) /\ Len(prints') = Len(prints) /\ prints'[1] = q
      /\ \A k \in 2 .. Len(prints) : prints'[k] = prints[k]
  <2>1. [prints EXCEPT ![1] = q] \in Seq(Printing)
        /\ Len([prints EXCEPT ![1] = q]) = Len(prints)
        /\ [prints EXCEPT ![1] = q][1] = q
        /\ \A i \in 1 .. Len(prints) : i # 1 => [prints EXCEPT ![1] = q][i] = prints[i]
    BY <1>1, <1>3, ExceptSeq
  <2>2. \A k \in 2 .. Len(prints) : k \in 1 .. Len(prints) /\ k # 1
    BY <1>1
  <2> QED
    BY <1>4, <2>1, <2>2
<1>6. \A k \in 1 .. Len(prints) :
        prints'[k].rest = prints[k].rest /\ (prints'[k].handler <=> prints[k].handler)
  BY <1>3, <1>5
<1>7. On' = On
  BY <1>1 DEF On
<1>8. LogTypes'
  BY <1>1, <1>5 DEF LogInv, LogTypes
<1>9. OneHandler'
  BY <1>1, <1>5, <1>6 DEF LogInv, OneHandler
<1>10. PrintsRight'
  <2>1. Printable(out)'
    BY <1>1, <1>7 DEF LogInv, PrintsRight, Printable
  <2>2. \A k \in 1 .. Len(prints') : Printable(prints[k].rest)'
    BY <1>5, <1>6, <1>7 DEF LogInv, PrintsRight, Printable
  <2>3. \A k \in 1 .. Len(prints') : ~prints'[k].handler =>
          \A i \in 1 .. Len(prints'[k].rest) :
            prints'[k].rest[i].kind \notin HandlerKinds
    BY <1>5, <1>6 DEF LogInv, PrintsRight
  <2> QED
    BY <2>1, <2>2, <2>3 DEF PrintsRight
<1>11. WholeIn(Expected)'
  <2>1. (Handling' <=> Handling) /\ prints'[1].rest = prints[1].rest
    BY <1>1, <1>5, <1>6 DEF Handling
  <2> QED
    BY <1>1, <2>1 DEF LogInv, Expected, WholeIn
<1> QED
  BY <1>8, <1>9, <1>10, <1>11 DEF LogInv

(* One character goes from what is printed to the log.                     *)
LEMMA CharMoves ==
  ASSUME NEW s \in Seq(Letter), NEW rest \in Seq(Letter), rest # << >>
  PROVE  /\ Head(rest) \in Letter /\ Head(rest) = rest[1] /\ 1 \in 1 .. Len(rest)
         /\ Append(s, Head(rest)) = s \o <<Head(rest)>>
         /\ <<Head(rest)>> \in Seq(Letter)
         /\ Tail(rest) \in Seq(Letter) /\ Len(Tail(rest)) = Len(rest) - 1
         /\ \A i \in 1 .. Len(Tail(rest)) :
              i + 1 \in 1 .. Len(rest) /\ Tail(rest)[i] = rest[i + 1]
         /\ Len(rest) = 1 => Append(s, Head(rest)) = s \o rest
         /\ Append(s, Head(rest)) \o Tail(rest) = s \o rest
<1>1. Len(rest) \in Nat /\ Len(rest) >= 1 /\ Len(s) \in Nat
  OBVIOUS
<1>2. Head(rest) \in Letter /\ Head(rest) = rest[1] /\ 1 \in 1 .. Len(rest)
  BY <1>1
<1>3. Tail(rest) \in Seq(Letter) /\ Len(Tail(rest)) = Len(rest) - 1
      /\ \A i \in 1 .. Len(Tail(rest)) :
           i + 1 \in 1 .. Len(rest) /\ Tail(rest)[i] = rest[i + 1]
  BY <1>1
<1> DEFINE a == Append(s, Head(rest))
<1>4. a \in Seq(Letter) /\ Len(a) = Len(s) + 1 /\ a[Len(s) + 1] = rest[1]
      /\ \A i \in 1 .. Len(s) : a[i] = s[i]
  BY <1>1, <1>2
<1>5. a = s \o <<Head(rest)>> /\ <<Head(rest)>> \in Seq(Letter)
  BY <1>2, AppendIsConcat
<1> HIDE DEF a
<1>6. Len(rest) = 1 => a = s \o rest
  <2> SUFFICES ASSUME Len(rest) = 1 PROVE a = s \o rest
    OBVIOUS
  <2>1. s \o rest \in Seq(Letter)
    OBVIOUS
  <2>3. Len(s \o rest) = Len(s) + Len(rest)
    BY ConcatProperties
  <2>2. \A i \in 1 .. Len(a) : (s \o rest)[i] = a[i]
    BY <1>1, <1>4
  <2> QED
    BY <1>1, <1>4, <2>1, <2>2, <2>3, SeqEqual
<1>7. a \o Tail(rest) = s \o rest
  <2>1. Len(a \o Tail(rest)) = Len(s \o rest) /\ Len(s \o rest) = Len(s) + Len(rest)
    BY <1>1, <1>3, <1>4
  <2>2. ASSUME NEW i \in 1 .. Len(s) + Len(rest)
        PROVE  (a \o Tail(rest))[i] = (s \o rest)[i]
    <3>1. CASE i <= Len(s)
      BY <1>1, <1>3, <1>4, <3>1
    <3>2. CASE i = Len(s) + 1
      BY <1>1, <1>3, <1>4, <3>2
    <3>3. CASE i > Len(s) + 1
      <4>1. i - (Len(s) + 1) \in 1 .. Len(Tail(rest))
        BY <1>1, <1>3, <3>3
      <4>2. Tail(rest)[i - (Len(s) + 1)] = rest[i - Len(s)]
        BY <1>1, <1>3, <4>1
      <4> QED
        BY <1>1, <1>3, <1>4, <3>3, <4>1, <4>2
    <3>4. i <= Len(s) \/ i = Len(s) + 1 \/ i > Len(s) + 1
      BY <1>1
    <3> QED
      BY <3>1, <3>2, <3>3, <3>4
  <2>3. a \o Tail(rest) \in Seq(Letter) /\ s \o rest \in Seq(Letter)
    BY <1>3, <1>4
  <2> QED
    BY <2>1, <2>2, <2>3, SeqEqual
<1> QED
  BY <1>2, <1>3, <1>5, <1>6, <1>7 DEF a

(* A handler has room for its character, and prints all of them; if the    *)
(* program's is lost, this is no concern of the handlers.                  *)
LEMMA WriteCharStep ==
  ASSUME LogInv, WriteChar
  PROVE  LogInv'
<1> DEFINE rest == Head(prints).rest
           p == [prints[1] EXCEPT !.rest = Tail(rest), !.ready = FALSE]
<1>1. prints \in Seq(Printing) /\ prints # << >> /\ Len(prints) \in Nat /\ Len(prints) >= 1
      /\ Head(prints) = prints[1] /\ prints[1] \in Printing /\ prints[1].ready
  BY DEF LogInv, LogTypes, WriteChar, Quiet
<1>2. rest = prints[1].rest /\ rest \in Seq(Letter) /\ rest # << >>
      /\ prints[1].handler \in BOOLEAN
  BY <1>1 DEF Printing
<1>3. /\ IF space > 0 THEN out' = Append(out, Head(rest)) /\ space' = space - 1
         ELSE UNCHANGED <<out, space>>
      /\ prints' = IF Len(rest) = 1 THEN Tail(prints)
                   ELSE [prints EXCEPT ![1].rest = Tail(rest), ![1].ready = FALSE]
      /\ UNCHANGED <<ALT_LOG_FLAGS, sys_clk_count, alarm_left>>
      /\ lost' = IF space > 0 THEN lost ELSE lost + 1
  BY DEF WriteChar, clock
<1>4. out \in Seq(Letter) /\ space \in 0 .. Depth /\ lost \in Nat /\ Depth \in Nat
  BY LogAssumption DEF LogInv, LogTypes
<1> HIDE DEF rest
<1>5. p.rest = Tail(rest) /\ ~p.ready /\ p.handler = prints[1].handler
      /\ (Len(rest) # 1 => p \in Printing)
  <2>1. Tail(rest) \in Seq(Letter) /\ Len(Tail(rest)) = Len(rest) - 1
    BY <1>2, <1>4, CharMoves
  <2>2. Len(rest) # 1 => Tail(rest) # << >>
    <3>1. Len(rest) \in Nat
      BY <1>2
    <3>2. Tail(rest) = << >> => Len(Tail(rest)) = 0
      OBVIOUS
    <3> QED
      BY <2>1, <3>1, <3>2
  <2> QED
    BY <1>1, <2>1, <2>2 DEF Printing, p
<1>6. Len(rest) # 1 => prints' = [prints EXCEPT ![1] = p]
  BY <1>1, <1>3
<1> HIDE DEF p
<1>7. /\ Head(rest) \in Letter /\ Head(rest) = rest[1] /\ 1 \in 1 .. Len(rest)
      /\ Append(out, Head(rest)) = out \o <<Head(rest)>>
      /\ <<Head(rest)>> \in Seq(Letter)
      /\ Tail(rest) \in Seq(Letter) /\ Len(Tail(rest)) = Len(rest) - 1
      /\ \A i \in 1 .. Len(Tail(rest)) :
           i + 1 \in 1 .. Len(rest) /\ Tail(rest)[i] = rest[i + 1]
      /\ Len(rest) = 1 => Append(out, Head(rest)) = out \o rest
      /\ Append(out, Head(rest)) \o Tail(rest) = out \o rest
  BY <1>2, <1>4, CharMoves
<1>12. out' \in Seq(Letter)
  <2>1. Append(out, Head(rest)) \in Seq(Letter)
    BY <1>4, <1>7, AppendProperties
  <2> QED
    BY <1>3, <1>4, <2>1
<1>13. space' \in 0 .. Depth /\ lost' \in Nat
  BY <1>3, <1>4
<1>8. Printable(out)'
  <2>1. On' = On
    BY <1>3 DEF On
  <2>2. Printable(out) /\ Printable(rest)
    BY <1>1, <1>2 DEF LogInv, PrintsRight
  <2>3. Printable(<<Head(rest)>>)
    BY <1>7, <2>2 DEF Printable
  <2>4. Printable(Append(out, Head(rest)))
    BY <1>4, <1>7, <2>2, <2>3, PrintableTogether
  <2> QED
    BY <1>3, <2>1, <2>2, <2>4 DEF Printable
<1>9. /\ prints[1].handler => space > 0 /\ WholeIn(out \o rest) /\ Handling
      /\ ~prints[1].handler =>
           ~Handling /\ WholeIn(out) /\ WholeIn(Append(out, Head(rest)))
  <2>1. 1 \in 1 .. Len(prints)
    BY <1>1
  <2>2. CASE prints[1].handler
    <3>1. Handling /\ Expected = out \o rest
      BY <1>1, <1>2, <2>2 DEF Handling, Expected
    <3>2. space > 0
      BY <1>1, <2>1, <2>2 DEF LogInv, OneHandler
    <3> QED
      BY <2>2, <3>1, <3>2 DEF LogInv
  <2>3. CASE ~prints[1].handler
    <3>1. ~Handling /\ WholeIn(out)
      BY <2>3 DEF Handling, Expected, LogInv
    <3>2. Head(rest).kind \notin HandlerKinds
      BY <1>2, <1>7, <2>1, <2>3 DEF LogInv, PrintsRight
    <3>3. WholeIn(<<Head(rest)>>)
      BY <1>7, <3>2 DEF WholeIn, Opens
    <3>4. WholeIn(Append(out, Head(rest)))
      BY <1>4, <1>7, <3>1, <3>3, WholeTogether
    <3> QED
      BY <2>3, <3>1, <3>4
  <2> QED
    BY <2>2, <2>3
<1>10. CASE Len(rest) = 1
  <2>1. prints' \in Seq(Printing) /\ Len(prints') = Len(prints) - 1
        /\ \A k \in 1 .. Len(prints') : k + 1 \in 1 .. Len(prints) /\ k + 1 # 1
                                        /\ prints'[k] = prints[k + 1]
    BY <1>1, <1>3, <1>10
  <2>2. \A k \in 1 .. Len(prints') : ~prints'[k].handler
    BY <2>1 DEF LogInv, OneHandler
  <2>3. Len(prints') <= 1
    BY <1>1, <2>1 DEF LogInv, OneHandler
  <2>4. OneHandler'
    BY <2>1, <2>2, <2>3, <1>1 DEF OneHandler
  <2>5. LogTypes'
    BY <1>3, <1>12, <1>13, <2>1 DEF LogInv, LogTypes
  <2>6. \A k \in 1 .. Len(prints') : Printable(prints[k].rest)'
    <3>1. On' = On
      BY <1>3 DEF On
    <3>2. \A k \in 1 .. Len(prints') : Printable(prints'[k].rest)
      BY <2>1 DEF LogInv, PrintsRight
    <3> QED
      BY <3>1, <3>2 DEF Printable
  <2>7. PrintsRight'
    BY <1>8, <2>1, <2>6 DEF LogInv, PrintsRight
  <2>8. Expected' = out'
    BY <1>1, <2>1, <2>2 DEF Expected, Handling
  <2>9. WholeIn(Expected)'
    <3>1. WholeIn(out')
      BY <1>2, <1>3, <1>7, <1>9, <1>10
    <3> QED
      BY <2>8, <3>1 DEF WholeIn
  <2> QED
    BY <2>4, <2>5, <2>7, <2>9 DEF LogInv
<1>11. CASE Len(rest) # 1
  <2>1. prints' \in Seq(Printing) /\ Len(prints') = Len(prints) /\ prints'[1] = p
        /\ \A k \in 1 .. Len(prints) : k # 1 => prints'[k] = prints[k]
    <3>1. 1 \in 1 .. Len(prints)
      BY <1>1
    <3> QED
      BY <1>1, <1>5, <1>6, <1>11, <3>1, ExceptSeq
  <2>2. \A k \in 1 .. Len(prints) :
          /\ prints'[k].handler = prints[k].handler
          /\ k # 1 => prints'[k].rest = prints[k].rest
    BY <1>5, <2>1
  <2>3. LogTypes'
    BY <1>3, <1>12, <1>13, <2>1 DEF LogInv, LogTypes
  <2>4. OneHandler'
    <3>1. \A k \in 1 .. Len(prints') : prints'[k].handler /\ prints'[k].ready => FALSE
      BY <1>5, <2>1, <2>2 DEF LogInv, OneHandler
    <3>2. Len(prints') <= 2 /\ (Len(prints') = 2 => prints'[1].handler)
      BY <1>5, <2>1 DEF LogInv, OneHandler
    <3>3. \A k \in 1 .. Len(prints') : prints'[k].handler => k = 1
      BY <2>1, <2>2 DEF LogInv, OneHandler
    <3> QED
      BY <3>1, <3>2, <3>3 DEF OneHandler
  <2>5. On' = On
    BY <1>3 DEF On
  <2>6. Printable(rest)
    BY <1>1, <1>2 DEF LogInv, PrintsRight
  <2>7. \A k \in 1 .. Len(prints') : Printable(prints[k].rest)'
    <3> SUFFICES ASSUME NEW k \in 1 .. Len(prints) PROVE Printable(prints'[k].rest)
      BY <2>1, <2>5 DEF Printable
    <3>1. CASE k = 1
      <4>1. Printable(Tail(rest))
        BY <1>7, <2>6 DEF Printable
      <4> QED
        BY <1>5, <2>1, <3>1, <4>1
    <3>2. CASE k # 1
      BY <2>2, <3>2 DEF LogInv, PrintsRight
    <3> QED
      BY <3>1, <3>2
  <2>8. \A k \in 1 .. Len(prints') : ~prints'[k].handler =>
          \A i \in 1 .. Len(prints'[k].rest) :
            prints'[k].rest[i].kind \notin HandlerKinds
    <3> SUFFICES ASSUME NEW k \in 1 .. Len(prints), ~prints[k].handler,
                        NEW i \in 1 .. Len(prints'[k].rest)
                 PROVE  prints'[k].rest[i].kind \notin HandlerKinds
      BY <2>1, <2>2
    <3>1. CASE k = 1
      <4>1. prints'[k].rest = Tail(rest)
        BY <1>5, <2>1, <3>1
      <4>2. \A j \in 1 .. Len(rest) : rest[j].kind \notin HandlerKinds
        BY <1>2, <3>1 DEF LogInv, PrintsRight
      <4> QED
        BY <1>7, <4>1, <4>2
    <3>2. CASE k # 1
      BY <2>2, <3>2 DEF LogInv, PrintsRight
    <3> QED
      BY <3>1, <3>2
  <2>9. PrintsRight'
    BY <1>8, <2>7, <2>8 DEF PrintsRight
  <2>10. Handling' <=> prints[1].handler
    BY <1>1, <1>5, <2>1 DEF Handling
  <2>11. CASE prints[1].handler
    <3>1. Expected' = out \o rest
      BY <1>3, <1>5, <1>7, <1>9, <2>1, <2>10, <2>11 DEF Expected
    <3>2. WholeIn(out \o rest)
      BY <1>9, <2>11
    <3> QED
      BY <2>3, <2>4, <2>9, <3>1, <3>2 DEF LogInv, WholeIn
  <2>12. CASE ~prints[1].handler
    <3>1. Expected' = out'
      BY <2>10, <2>12 DEF Expected
    <3>2. WholeIn(out')
      BY <1>3, <1>9, <2>12
    <3> QED
      BY <2>3, <2>4, <2>9, <3>1, <3>2 DEF LogInv, WholeIn
  <2> QED
    BY <1>2, <2>11, <2>12
<1> QED
  BY <1>10, <1>11

LEMMA HostReadsStep ==
  ASSUME LogInv, HostReads
  PROVE  LogInv'
<1>1. LogTypes' /\ space' >= space
  BY LogAssumption DEF LogInv, LogTypes, HostReads, printing, clock
<1> QED
  BY <1>1, LogUndisturbed DEF HostReads, printing

(* What nobody has begun to print, no one has to finish.                   *)
LEMMA TypesTold ==
  ASSUME LogTypes, NEW msg \in Seq(Letter), msg # << >>, NEW handler \in BOOLEAN,
         Tell(msg, handler)
  PROVE  prints' \in Seq(Printing)
<1> DEFINE p == [rest |-> msg, ready |-> FALSE, handler |-> handler]
<1>1. p \in Printing
  BY DEF Printing
<1>2. prints' = <<p>> \o prints
  BY DEF Tell
<1> HIDE DEF p
<1> QED
  BY <1>1, <1>2 DEF LogTypes

LEMMA BootStep ==
  ASSUME LogInv, Boot
  PROVE  LogInv'
<1> DEFINE msg == Message("boot")
<1>1. /\ msg \in Seq(Letter) /\ Printable(msg)
      /\ \A k \in 1 .. Len(msg) : msg[k].kind = "boot"
  BY WholePair DEF Kinds
<1>2. msg # << >> /\ Tell(msg, FALSE) /\ Quiet
      /\ UNCHANGED <<ALT_LOG_FLAGS, space, out, lost, sys_clk_count, alarm_left>>
  BY DEF Boot, Room, port, clock
<1> HIDE DEF msg
<1>3. prints' \in Seq(Printing)
  BY <1>1, <1>2, TypesTold DEF LogInv
<1>4. LogTypes'
  BY <1>2, <1>3 DEF LogInv, LogTypes
<1>5. \A k \in 1 .. Len(msg) : msg[k].kind \notin HandlerKinds
  BY <1>1 DEF HandlerKinds
<1> QED
  BY <1>1, <1>2, <1>4, <1>5, Told

LEMMA RegisterStep ==
  ASSUME LogInv, ALT_LOG_JTAG_UART_ALARM_REGISTER
  PROVE  LogInv'
<1> DEFINE msg == Message("startup")
<1>1. /\ msg \in Seq(Letter) /\ Printable(msg)
      /\ \A k \in 1 .. Len(msg) : msg[k].kind = "startup"
  BY WholePair DEF Kinds
<1>2. Quiet /\ (IF Room(msg) THEN Tell(msg, FALSE) ELSE UNCHANGED prints)
  BY DEF ALT_LOG_JTAG_UART_ALARM_REGISTER, printing
<1> HIDE DEF msg
<1>3. alarm_left' \in 0 .. AlarmTicks + 1
      /\ UNCHANGED <<ALT_LOG_FLAGS, space, out, lost, sys_clk_count>>
  BY LogAssumption DEF ALT_LOG_JTAG_UART_ALARM_REGISTER, port
<1>4. CASE Room(msg)
  <2>1. msg # << >> /\ Tell(msg, FALSE)
    BY <1>2, <1>4 DEF Room
  <2>2. prints' \in Seq(Printing)
    BY <1>1, <2>1, TypesTold DEF LogInv
  <2>3. LogTypes'
    BY <1>3, <2>2 DEF LogInv, LogTypes
  <2>4. \A k \in 1 .. Len(msg) : msg[k].kind \notin HandlerKinds
    BY <1>1 DEF HandlerKinds
  <2> QED
    BY <1>1, <1>2, <1>3, <2>1, <2>3, <2>4, Told
<1>5. CASE ~Room(msg)
  <2>1. LogTypes' /\ space' >= space
    BY <1>2, <1>3, <1>5, LogAssumption DEF LogInv, LogTypes
  <2> QED
    BY <1>2, <1>3, <1>5, <2>1, LogUndisturbed
<1> QED
  BY <1>4, <1>5

LEMMA EchoedRight ==
  ASSUME NEW text \in Texts
  PROVE  LET echo == EchoBuffer(text)
         IN  /\ echo \in Seq(STRING \cup {"nl", "cr", "D"})
             /\ \A k \in 1 .. Len(echo) : echo[k] # "^D"
<1> DEFINE S == STRING \cup {"nl", "cr", "D"}
           length == IF EchoLength > Len(text) THEN Len(text) ELSE EchoLength
           front == [k \in 1 .. length - 1 |-> Escaped(text[k])]
           end == <<"nl", "cr">>
<1>1. text \in Seq(STRING) /\ Len(text) \in Nat /\ EchoLength \in Nat
  BY LogAssumption
<1>2. length \in Nat /\ length <= Len(text)
  BY <1>1
<1>3. EchoBuffer(text) = IF length < 2 THEN << >> ELSE front \o end
  BY DEF EchoBuffer
<1>4. CASE length < 2
  BY <1>3, <1>4
<1>5. CASE length >= 2
  <2> HIDE DEF length
  <2>1. \A k \in 1 .. length - 1 : text[k] \in STRING
    BY <1>1, <1>2
  <2>2. \A k \in 1 .. length - 1 : Escaped(text[k]) \in S /\ Escaped(text[k]) # "^D"
    BY <2>1 DEF Escaped
  <2>3. front \in Seq(S) /\ Len(front) = length - 1
        /\ \A k \in 1 .. length - 1 : front[k] # "^D"
    BY <1>2, <1>5, <2>2
  <2>4. end \in Seq(S) /\ Len(end) = 2 /\ \A k \in 1 .. 2 : end[k] # "^D"
    BY DEF S
  <2> HIDE DEF front, end, S
  <2>5. /\ front \o end \in Seq(S) /\ Len(front \o end) = Len(front) + Len(end)
        /\ \A i \in 1 .. Len(front) + Len(end) :
             (front \o end)[i] = IF i <= Len(front) THEN front[i]
                                 ELSE end[i - Len(front)]
    BY <2>3, <2>4, ConcatProperties
  <2>6. ASSUME NEW i \in 1 .. Len(front) + Len(end) PROVE (front \o end)[i] # "^D"
    <3>1. i <= Len(front) => i \in 1 .. length - 1
      BY <1>2, <1>5, <2>3, <2>4
    <3>2. i > Len(front) => i - Len(front) \in 1 .. 2
      BY <1>2, <1>5, <2>3, <2>4
    <3>3. i <= Len(front) \/ i > Len(front)
      BY <1>2, <1>5, <2>3, <2>4
    <3> QED
      BY <2>3, <2>4, <2>5, <3>1, <3>2, <3>3
  <2> QED
    BY <1>3, <1>5, <2>5, <2>6 DEF length, S
<1> QED
  BY <1>2, <1>4, <1>5

LEMMA LogWriteStep ==
  ASSUME LogInv, NEW text \in Texts, alt_log_write(text)
  PROVE  LogInv'
<1> DEFINE echo == EchoBuffer(text)
           msg == [k \in DOMAIN echo |-> [kind |-> "write", c |-> echo[k]]]
           S == STRING \cup {"nl", "cr", "D"}
<1>1. echo \in Seq(S) /\ \A k \in 1 .. Len(echo) : echo[k] # "^D"
  BY EchoedRight
<1>2. /\ Quiet /\ "write" \in On
      /\ IF Room(msg) THEN Tell(msg, FALSE) ELSE UNCHANGED prints
  BY DEF alt_log_write, printing
<1>3. UNCHANGED <<ALT_LOG_FLAGS, space, out, lost, sys_clk_count, alarm_left>>
  BY DEF alt_log_write, port, clock
<1> HIDE DEF echo
<1>4. Len(echo) \in Nat /\ DOMAIN echo = 1 .. Len(echo)
  BY <1>1
<1>5. \A k \in 1 .. Len(echo) : [kind |-> "write", c |-> echo[k]] \in Letter
  BY <1>1, <1>4 DEF Letter, Kinds
<1>6. msg \in Seq(Letter) /\ Len(msg) = Len(echo)
      /\ \A k \in 1 .. Len(msg) : msg[k].kind = "write" /\ msg[k].c = echo[k]
  BY <1>4, <1>5
<1> HIDE DEF msg
<1>7. Printable(msg) /\ \A k \in 1 .. Len(msg) : msg[k].kind \notin HandlerKinds
  BY <1>1, <1>2, <1>6 DEF Printable, HandlerKinds
<1>8. CASE Room(msg)
  <2>1. msg # << >> /\ Tell(msg, FALSE)
    BY <1>2, <1>8 DEF Room
  <2>2. prints' \in Seq(Printing)
    BY <1>6, <2>1, TypesTold DEF LogInv
  <2>3. LogTypes'
    BY <1>3, <2>2 DEF LogInv, LogTypes
  <2> QED
    BY <1>2, <1>3, <1>6, <1>7, <2>1, <2>3, Told
<1>9. CASE ~Room(msg)
  <2>1. LogTypes' /\ space' >= space
    BY <1>2, <1>3, <1>9, LogAssumption DEF LogInv, LogTypes
  <2> QED
    BY <1>2, <1>3, <1>9, <2>1, LogUndisturbed
<1> QED
  BY <1>8, <1>9

LEMMA LogTickStep ==
  ASSUME LogInv, LogTick
  PROVE  LogInv'
<1> DEFINE beat == alt_log_system_clock.msg
           last == IF alarm_left = 1 THEN Message("alarm") ELSE << >>
           msg == beat \o last
<1>1. /\ beat \in Seq(Letter) /\ Printable(beat) /\ WholeIn(beat)
      /\ alt_log_system_clock.count \in 0 .. Interval
  <2>1. Message("sys_clk") \in Seq(Letter) /\ Printable(Message("sys_clk"))
        /\ WholeIn(Message("sys_clk"))
    BY WholePair DEF Kinds, HandlerKinds
  <2>2. << >> \in Seq(Letter) /\ Printable(<< >>) /\ WholeIn(<< >>)
    BY DEF Printable, WholeIn
  <2>3. beat \in {<< >>, Message("sys_clk")}
    BY DEF alt_log_system_clock
  <2>4. alt_log_system_clock.count \in 0 .. Interval
    BY LogAssumption DEF alt_log_system_clock, LogInv, LogTypes
  <2> QED
    BY <2>1, <2>2, <2>3, <2>4
<1>2. last \in Seq(Letter) /\ Printable(last) /\ WholeIn(last)
  <2>1. Message("alarm") \in Seq(Letter) /\ Printable(Message("alarm"))
        /\ WholeIn(Message("alarm"))
    BY WholePair DEF Kinds, HandlerKinds
  <2>2. << >> \in Seq(Letter) /\ Printable(<< >>) /\ WholeIn(<< >>)
    BY DEF Printable, WholeIn
  <2> QED
    BY <2>1, <2>2
<1>3. Interruptible /\ (IF Room(msg) THEN Tell(msg, TRUE) ELSE UNCHANGED prints)
  BY DEF LogTick, printing
<1>4. sys_clk_count' \in 0 .. Interval /\ alarm_left' \in 0 .. AlarmTicks + 1
      /\ UNCHANGED <<ALT_LOG_FLAGS, space, out, lost>>
  BY <1>1, LogAssumption DEF LogTick, port, LogInv, LogTypes
<1> HIDE DEF beat, last
<1>5. msg \in Seq(Letter) /\ Printable(msg) /\ WholeIn(msg)
  BY <1>1, <1>2, WholeTogether, PrintableTogether
<1> HIDE DEF msg
<1>6. CASE Room(msg)
  <2>1. msg # << >> /\ Tell(msg, TRUE)
    BY <1>3, <1>6 DEF Room
  <2>2. prints' \in Seq(Printing)
    BY <1>5, <2>1, TypesTold DEF LogInv
  <2>3. LogTypes'
    BY <1>4, <2>2 DEF LogInv, LogTypes
  <2> QED
    BY <1>3, <1>4, <1>5, <2>1, <2>3, Told
<1>7. CASE ~Room(msg)
  <2>1. LogTypes' /\ space' >= space
    BY <1>3, <1>4, <1>7, LogAssumption DEF LogInv, LogTypes
  <2> QED
    BY <1>3, <1>4, <1>7, <2>1, LogUndisturbed
<1> QED
  BY <1>6, <1>7

LEMMA IsrProcStep ==
  ASSUME LogInv, alt_log_jtag_uart_isr_proc
  PROVE  LogInv'
<1> DEFINE msg == Message("isr")
<1>1. msg \in Seq(Letter) /\ Printable(msg) /\ WholeIn(msg)
  BY WholePair DEF Kinds, HandlerKinds
<1>2. msg # << >> /\ Tell(msg, TRUE) /\ Interruptible
      /\ UNCHANGED <<ALT_LOG_FLAGS, space, out, lost, sys_clk_count, alarm_left>>
  BY DEF alt_log_jtag_uart_isr_proc, Room, port, clock
<1> HIDE DEF msg
<1>3. prints' \in Seq(Printing)
  BY <1>1, <1>2, TypesTold DEF LogInv
<1>4. LogTypes'
  BY <1>2, <1>3 DEF LogInv, LogTypes
<1> QED
  BY <1>1, <1>2, <1>4, Told

LEMMA LogStepInv == LogInv /\ [LogNext]_logVars => LogInv'
<1> SUFFICES ASSUME LogInv, [LogNext]_logVars PROVE LogInv'
  OBVIOUS
<1>1. CASE UNCHANGED logVars
  <2>1. LogTypes' /\ space' >= space
    BY <1>1 DEF logVars, port, printing, clock, LogInv, LogTypes
  <2> QED
    BY <1>1, <2>1, LogUndisturbed DEF logVars, port, printing
<1> QED
  BY <1>1, WaitReadyStep, WriteCharStep, HostReadsStep, BootStep, RegisterStep,
     LogWriteStep, LogTickStep, IsrProcStep DEF LogNext

(* The program that saw room for its character still has it, or a handler  *)
(* has come since, and has been counted.                                   *)
LossInv ==
  /\ intruded \in BOOLEAN /\ intrusions \in Nat
  /\ lost + (IF intruded THEN 1 ELSE 0) <= intrusions
  /\ \A k \in 1 .. Len(prints) : prints[k].ready /\ ~prints[k].handler =>
       (space > 0 \/ intruded) /\ (k = 2 => intruded)

(* A handler that begins to print counts, if the program has seen room.    *)
LEMMA LossTold ==
  ASSUME LogInv, LossInv, UNCHANGED <<space, lost>>,
         NEW msg, NEW handler \in BOOLEAN, Tell(msg, handler),
         IF handler THEN Interruptible ELSE Quiet
  PROVE  LossInv'
<1> DEFINE p == [rest |-> msg, ready |-> FALSE, handler |-> handler]
<1>1. prints \in Seq(Printing) /\ Len(prints) \in Nat /\ lost \in Nat
      /\ DOMAIN prints = 1 .. Len(prints)
  BY DEF LogInv, LogTypes
<1>2. PICK intrudes \in BOOLEAN :
        /\ intrudes <=> handler /\ SawRoom /\ ~intruded
        /\ intruded' = (intruded \/ intrudes)
        /\ intrusions' = IF intrudes THEN intrusions + 1 ELSE intrusions
  BY DEF Tell
<1>3. intruded' \in BOOLEAN /\ intrusions' \in Nat
      /\ lost' + (IF intruded' THEN 1 ELSE 0) <= intrusions'
  BY <1>1, <1>2 DEF LossInv
<1>4. prints' = <<p>> \o prints /\ p.ready = FALSE
  BY DEF Tell
<1> HIDE DEF p
<1>5. Len(prints') = Len(prints) + 1 /\ prints'[1] = p
      /\ \A k \in 2 .. Len(prints') :
           k - 1 \in 1 .. Len(prints) /\ prints'[k] = prints[k - 1]
  BY <1>1, <1>4
<1>6. ASSUME NEW k \in 1 .. Len(prints'), prints'[k].ready, ~prints'[k].handler
      PROVE  intruded'
  <2>1. k # 1
    BY <1>4, <1>5, <1>6
  <2>2. k - 1 \in 1 .. Len(prints) /\ prints'[k] = prints[k - 1]
    BY <1>1, <1>5, <2>1
  <2>3. prints # << >> /\ handler /\ Interruptible
    BY <1>1, <2>2 DEF Quiet
  <2>4. Len(prints) # 2 /\ Len(prints) <= 2
    BY <1>1, <2>3 DEF LogInv, OneHandler, Interruptible
  <2>5. k - 1 = 1
    BY <1>1, <2>2, <2>4
  <2>6. SawRoom
    BY <1>1, <1>6, <2>2, <2>3, <2>5 DEF SawRoom, Quiet
  <2> QED BY <1>2, <2>3, <2>6 DEF LossInv
<1> QED BY <1>3, <1>6 DEF LossInv

LEMMA LossStays ==
  ASSUME LogInv, LossInv, UNCHANGED <<printing, lost>>, space' \in Nat, space' >= space
  PROVE  LossInv'
<1>1. space \in Nat
  BY LogAssumption DEF LogInv, LogTypes
<1> QED BY <1>1 DEF LossInv, printing

LEMMA LossWait ==
  ASSUME LogInv, LossInv, WaitReady
  PROVE  LossInv'
<1>1. /\ prints \in Seq(Printing) /\ prints # << >> /\ Len(prints) \in Nat
      /\ Len(prints) <= 2 /\ (Len(prints) = 2 => prints[1].handler)
      /\ prints' = [prints EXCEPT ![1].ready = TRUE] /\ space > 0
      /\ UNCHANGED <<space, lost, intruded, intrusions>>
  BY DEF LogInv, LogTypes, OneHandler, WaitReady, Quiet, port
<1>2. /\ Len(prints') = Len(prints) /\ prints'[1].handler = prints[1].handler
      /\ \A k \in 1 .. Len(prints) : k # 1 => prints'[k] = prints[k]
  BY <1>1
<1>3. ASSUME NEW k \in 1 .. Len(prints'), prints'[k].ready, ~prints'[k].handler
      PROVE  k = 2 => intruded'
  BY <1>1, <1>2, <1>3 DEF LossInv
<1> QED BY <1>1, <1>3 DEF LossInv

(* The program's character is lost only if there is no room any more; a    *)
(* handler's finds the room that the program has seen taken, or leaves it. *)
LEMMA LossWrite ==
  ASSUME LogInv, LossInv, WriteChar
  PROVE  LossInv'
<1>1. /\ prints \in Seq(Printing) /\ prints # << >> /\ Len(prints) \in Nat
      /\ Len(prints) \in 1 .. 2 /\ (Len(prints) = 2 => prints[1].handler)
      /\ (\A k \in 1 .. Len(prints) : prints[k].handler => k = 1)
      /\ Head(prints) = prints[1] /\ prints[1].ready /\ prints[1] \in Printing
      /\ lost \in Nat /\ space \in Nat
  <2>1. /\ prints \in Seq(Printing) /\ prints # << >> /\ Head(prints).ready
        /\ lost \in Nat /\ space \in Nat
    BY LogAssumption DEF LogInv, LogTypes, WriteChar, Quiet
  <2>2. /\ Len(prints) <= 2 /\ (Len(prints) = 2 => prints[1].handler)
        /\ (\A k \in 1 .. Len(prints) : prints[k].handler => k = 1)
    BY DEF LogInv, OneHandler
  <2>3. Len(prints) \in Nat /\ Len(prints) # 0 /\ Head(prints) = prints[1]
    BY <2>1
  <2>4. PICK n \in Nat : n = Len(prints)
    BY <2>3
  <2>5. n \in 1 .. 2 /\ 1 \in 1 .. n
    BY <2>2, <2>3, <2>4
  <2>6. prints[1] \in Printing
    BY <2>1, <2>4, <2>5
  <2> QED BY <2>1, <2>2, <2>3, <2>4, <2>5, <2>6
<1>2. /\ lost' = IF space > 0 THEN lost ELSE lost + 1
      /\ intruded' = (intruded /\ prints[1].handler) /\ intrusions' = intrusions
      /\ prints' = IF Len(prints[1].rest) = 1 THEN Tail(prints)
                   ELSE [prints EXCEPT ![1].rest = Tail(prints[1].rest),
                                       ![1].ready = FALSE]
  BY <1>1 DEF WriteChar
<1>3. prints[1].handler \in BOOLEAN
  BY <1>1 DEF Printing
<1>4. /\ prints[1].handler => space > 0
      /\ ~prints[1].handler => space > 0 \/ intruded
  <2>1. 1 \in 1 .. Len(prints)
    BY <1>1
  <2> QED BY <1>1, <2>1 DEF LogInv, OneHandler, LossInv
<1>5. intruded' \in BOOLEAN /\ intrusions' \in Nat
      /\ lost' + (IF intruded' THEN 1 ELSE 0) <= intrusions'
  BY <1>1, <1>2, <1>3, <1>4 DEF LossInv
<1>6. ASSUME NEW k \in 1 .. Len(prints'), prints'[k].ready, ~prints'[k].handler
      PROVE  intruded'
  <2>1. PICK j \in 1 .. Len(prints) : j = 2 /\ prints'[k] = prints[j]
    <3>1. CASE Len(prints[1].rest) = 1
      <4>1. prints' = Tail(prints) /\ Len(prints') = Len(prints) - 1
        BY <1>1, <1>2, <3>1
      <4>2. k + 1 \in 1 .. Len(prints) /\ prints'[k] = prints[k + 1]
        BY <1>1, <4>1
      <4>3. k + 1 = 2
        BY <1>1, <4>2
      <4> QED BY <4>2, <4>3
    <3>2. CASE Len(prints[1].rest) # 1
      <4>1. /\ Len(prints') = Len(prints) /\ prints'[1].ready = FALSE
            /\ \A i \in 1 .. Len(prints) : i # 1 => prints'[i] = prints[i]
        BY <1>1, <1>2, <3>2
      <4>2. k \in 1 .. Len(prints) /\ k # 1
        BY <1>6, <4>1
      <4>3. k = 2
        BY <1>1, <4>2
      <4> QED BY <4>1, <4>2, <4>3
    <3> QED BY <3>1, <3>2
  <2>2. prints[1].handler
    BY <1>1, <2>1
  <2>3. intruded
    BY <1>6, <2>1 DEF LossInv
  <2> QED BY <1>2, <2>2, <2>3
<1> QED BY <1>5, <1>6 DEF LossInv

LEMMA LossStep == LogInv /\ LossInv /\ [LogNext]_logVars => LossInv'
<1> SUFFICES ASSUME LogInv, LossInv, [LogNext]_logVars PROVE LossInv'
  OBVIOUS
<1>0. space \in Nat /\ space >= space
  BY LogAssumption DEF LogInv, LogTypes
<1>1. CASE UNCHANGED logVars
  BY <1>0, <1>1, LossStays DEF logVars, port
<1>2. CASE HostReads
  BY <1>0, <1>2, LossStays DEF HostReads
<1>3. CASE Boot
  BY <1>3, LossTold DEF Boot, port
<1>4. CASE ALT_LOG_JTAG_UART_ALARM_REGISTER
  BY <1>0, <1>4, LossTold, LossStays DEF ALT_LOG_JTAG_UART_ALARM_REGISTER, port
<1>5. ASSUME NEW text \in Texts, alt_log_write(text) PROVE LossInv'
  BY <1>0, <1>5, LossTold, LossStays DEF alt_log_write, port
<1>6. CASE LogTick
  BY <1>0, <1>6, LossTold, LossStays DEF LogTick, port
<1>7. CASE alt_log_jtag_uart_isr_proc
  BY <1>7, LossTold DEF alt_log_jtag_uart_isr_proc, port
<1> QED
  BY <1>1, <1>2, <1>3, <1>4, <1>5, <1>6, <1>7, LossWait, LossWrite DEF LogNext

LEMMA LogInvRight == LogInv /\ LossInv => LogRight
<1> SUFFICES ASSUME LogInv, LossInv PROVE LogRight
  OBVIOUS
<1>0. out \in Seq(Letter) /\ prints \in Seq(Printing) /\ ALT_LOG_FLAGS \in Levels
      /\ Len(out) \in Nat
  BY DEF LogInv, LogTypes
<1>5. DOMAIN out = 1 .. Len(out) /\ DOMAIN prints = 1 .. Len(prints)
  BY <1>0
<1>1. LogTypeOK
  <2>1. \A k \in 1 .. Len(prints) : prints[k].rest # << >>
    <3>1. \A k \in 1 .. Len(prints) : prints[k] \in Printing
      BY <1>0
    <3> QED
      BY <3>1 DEF Printing
  <2> QED
    BY <1>5, <2>1 DEF LogTypeOK, LogInv, LogTypes, OneHandler
<1>2. HandlersWhole
  <2> SUFFICES ASSUME NEW k \in 1 .. Len(out), Opens(out[k])
               PROVE  IF k = Len(out) THEN ~Interruptible
                      ELSE out[k + 1] = [kind |-> out[k].kind, c |-> ")"]
    BY <1>5 DEF HandlersWhole, Opens
  <2>1. CASE Handling
    <3> DEFINE rest == prints[1].rest
    <3>1. 1 \in 1 .. Len(prints) /\ rest \in Seq(Letter) /\ Expected = out \o rest
      <4>1. Len(prints) \in Nat /\ prints # << >>
        BY <1>0, <2>1 DEF Handling
      <4>2. 1 \in 1 .. Len(prints)
        BY <1>0, <4>1
      <4>3. prints[1] \in Printing
        BY <1>0, <4>2
      <4> QED
        BY <2>1, <4>2, <4>3 DEF Expected, Printing
    <3>2. ~Interruptible
      BY <1>5, <2>1, <3>1 DEF Handling, Interruptible
    <3>3. CASE k # Len(out)
      <4> HIDE DEF rest
      <4>1. /\ Len(out \o rest) = Len(out) + Len(rest) /\ Len(rest) \in Nat
            /\ \A i \in 1 .. Len(out) + Len(rest) :
                 i <= Len(out) => (out \o rest)[i] = out[i]
        BY <1>0, <3>1, ConcatProperties
      <4>2. k \in 1 .. Len(out) + Len(rest) /\ k + 1 \in 1 .. Len(out) + Len(rest)
            /\ k <= Len(out) /\ k + 1 <= Len(out)
        <5>1. k \in Nat /\ k >= 1 /\ k <= Len(out) /\ k # Len(out) /\ Len(out) \in Nat
          BY <1>0, <3>3
        <5> QED
          BY <4>1, <5>1
      <4>3. (out \o rest)[k] = out[k] /\ (out \o rest)[k + 1] = out[k + 1]
        BY <4>1, <4>2
      <4>4. (out \o rest)[k + 1] = [kind |-> (out \o rest)[k].kind, c |-> ")"]
        BY <3>1, <4>1, <4>2, <4>3 DEF LogInv, WholeIn
      <4> QED
        BY <3>3, <4>3, <4>4
    <3> QED
      BY <3>2, <3>3
  <2>2. CASE ~Handling
    <3>1. WholeIn(out)
      BY <2>2 DEF LogInv, Expected
    <3>2. k < Len(out) /\ out[k + 1] = [kind |-> out[k].kind, c |-> ")"]
      BY <3>1 DEF WholeIn
    <3> QED
      BY <1>0, <3>2
  <2> QED
    BY <2>1, <2>2
<1>3. NoCtrlD
  BY <1>5 DEF LogInv, PrintsRight, Printable, NoCtrlD
<1>4. OnlyItsLevel
  <2>1. \A k \in 1 .. Len(out) : out[k].kind \in On
    BY DEF LogInv, PrintsRight, Printable
  <2>2. ALT_LOG_FLAGS \in -1 .. 3
    BY <1>0, LogAssumption
  <2>3. ALT_LOG_FLAGS = -1 => out = << >>
    <3> SUFFICES ASSUME ALT_LOG_FLAGS = -1 PROVE out = << >>
      OBVIOUS
    <3>1. On = {}
      BY DEF On
    <3>2. Len(out) = 0
      BY <1>0, <2>1, <3>1
    <3> QED
      BY <1>0, <3>2
  <2>4. ALT_LOG_FLAGS = 0 => On = {"boot"}
    BY DEF On
  <2>5. ALT_LOG_FLAGS < 2 => "write" \notin On
    BY <2>2 DEF On
  <2>6. ALT_LOG_FLAGS < 3 => "isr" \notin On
    BY <2>2 DEF On
  <2> QED
    BY <1>5, <2>1, <2>3, <2>4, <2>5, <2>6 DEF OnlyItsLevel
<1>6. LossExplained
  <2>1. lost \in Nat /\ intrusions \in Nat
    BY DEF LogInv, LogTypes, LossInv
  <2> QED BY <2>1 DEF LossInv, LossExplained
<1> QED
  BY <1>1, <1>2, <1>3, <1>4, <1>6 DEF LogRight

(* Whoever prints, and whatever interrupts it, the log has each message of *)
(* a handler in one piece, no Ctrl-D, and nothing above its level; it      *)
(* lacks one character at most of those that the program has seen room for *)
(* and a handler has come before.                                          *)
THEOREM LogAlwaysRight == LogSpec => []LogRight
<1>1. LogInit => LogInv /\ LossInv
  <2>1. ASSUME LogInit PROVE LossInv
    <3>1. prints = << >> /\ intruded = FALSE /\ intrusions = 0 /\ lost = 0
      BY <2>1 DEF LogInit
    <3>2. \A k \in 1 .. Len(prints) : FALSE
      BY <3>1
    <3>3. intruded \in BOOLEAN /\ (IF intruded THEN 1 ELSE 0) = 0
      BY <3>1, Zenon
    <3>4. intrusions \in Nat /\ lost + (IF intruded THEN 1 ELSE 0) <= intrusions
      <4>1. intrusions = 0 /\ lost = 0
        BY <3>1
      <4> QED BY <3>3, <4>1
    <3> QED BY <3>2, <3>3, <3>4, Zenon DEF LossInv
  <2> QED BY <2>1, LogInitInv
<1>2. LogInv /\ LossInv /\ [LogNext]_logVars => LogInv' /\ LossInv'
  BY LogStepInv, LossStep
<1>3. LogInv /\ LossInv => LogRight
  BY LogInvRight
<1> QED
  BY <1>1, <1>2, <1>3, PTL DEF LogSpec
=============================================================================
