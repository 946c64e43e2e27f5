----------------------------- MODULE DoubleTake -----------------------------
(***************************************************************************)
(* libdoubletake.cpp, the interposition layer of the tool this library     *)
(* grew out of.  It defines the C library's functions again.  Each wrapper *)
(* hands its call to one of three places: the real function (a pointer of  *)
(* Real, resolved by initRealFunctions), the recorder (syscalls, which     *)
(* logs the call for a replay), or the thread runtime (xthread).  Which    *)
(* one depends on two flags that are set in different places, on the       *)
(* descriptor for write, and on whether the thread has its checks          *)
(* disabled.  The three targets live in files that are not in the          *)
(* repository; what is modelled is who is called when.                     *)
(*                                                                         *)
(* h is the state of the layer: the phase of the process, the two flags,   *)
(* whether Real's pointers are resolved, how often the runtime was         *)
(* initialized, whether an epoch has begun, whether the current thread has *)
(* its checks disabled, what tempmalloc has given, and the last call with  *)
(* its target.                                                             *)
(***************************************************************************)
EXTENDS Naturals, Layer

CONSTANT TempUnits      \* InitialMallocSize, in allocations

DTInit ==
  h = [kind |-> "doubletake", phase |-> "loading", funcInitialized |-> FALSE,
       initialized |-> FALSE, resolved |-> FALSE, inits |-> 0, epoch |-> FALSE,
       unchecked |-> FALSE, temp |-> 0, call |-> "none", to |-> "none"]

(***************************************************************************)
(* The wrappers, by what they do, in the order of the source: the          *)
(* synchronisation functions, then the system calls by number.             *)
(***************************************************************************)
\* initialized ? xthread : nothing
SyncGuarded ==
  {"pthread_mutex_lock", "pthread_mutex_trylock", "pthread_mutex_unlock",
   "pthread_cond_init", "pthread_cond_broadcast", "pthread_cond_signal",
   "pthread_cond_wait", "pthread_cond_destroy", "pthread_barrier_wait"}
\* xthread whatever the flags say
ThreadAlways ==
  {"pthread_cancel", "pthread_self", "pthread_kill", "pthread_detach",
   "pthread_create", "pthread_join", "pthread_mutex_destroy",
   "pthread_barrier_init", "pthread_barrier_destroy"}
\* initialized ? recorder : Real
FileGuarded == {"read", "open", "close"}
StreamClosing == {"fclose"}
PlaceGuarded == {"lseek", "munmap"}
\* as FileGuarded, but resolves Real first when it has to
StreamGuarded == {"fopen", "fopen64"}
\* Real also when the thread has its checks disabled
MapGuarded == {"mprotect", "mmap"}
\* looks at the thread's checks only
SignalGuarded == {"sigaction", "sigprocmask"}
ExecGuarded == {"execve"}

\* The recorder whatever the flags say.
RecordedDirs == {"opendir", "closedir", "seekdir", "rewinddir"}
RecordedClosing == {"fclose64"}
RecordedMemory ==
  {"brk", "pwrite", "readv", "writev", "pipe", "mremap", "shmget", "shmat"}
RecordedSockets ==
  {"dup", "dup2", "alarm", "setitimer", "sendfile", "socket", "connect",
   "accept", "sendto", "recvfrom", "sendmsg", "bind", "listen", "socketpair",
   "setsockopt"}
RecordedSync ==
  {"semget", "semop", "fcntl", "flock", "fsync", "fdatasync", "truncate",
   "ftruncate", "chdir", "fchdir"}
RecordedFiles ==
  {"rename", "mkdir", "rmdir", "creat", "link", "unlink", "symlink",
   "readlink", "chmod", "fchmod", "chown", "fchown", "lchown", "umask",
   "gettimeofday", "times", "syslog", "vsyslog"}
RecordedIds ==
  {"setuid", "setgid", "setpgid", "setsid", "setreuid", "setregid",
   "setgroups", "setresuid", "setresgid", "setfsuid", "setfsgid"}
RecordedSignals ==
  {"sigtimedwait", "sigsuspend", "sigaltstack", "utime", "personality"}
RecordedSched ==
  {"setpriority", "sched_setparam", "sched_setscheduler", "mlock", "munlock",
   "mlockall", "munlockall", "vhangup", "adjtimex", "setrlimit", "chroot",
   "sync", "acct"}
RecordedAdmin ==
  {"settimeofday", "mount", "umount2", "swapon", "swapoff", "reboot",
   "sethostname", "setdomainname", "iopl", "ioperm"}
RecordedAttrs ==
  {"readahead", "setxattr", "lsetxattr", "fsetxattr", "removexattr",
   "lremovexattr", "fremovexattr", "time", "sched_setaffinity"}
RecordedTimers ==
  {"epoll_create", "epoll_ctl", "epoll_wait", "remap_file_pages",
   "semtimedop", "posix_fadvise64", "timer_create", "timer_settime",
   "timer_gettime", "timer_getoverrun", "timer_delete", "clock_settime",
   "clock_gettime", "clock_getres"}
RecordedWatches == {"utimes", "waitid", "inotify_add_watch", "inotify_rm_watch"}
RecordedAt ==
  {"mkdirat", "fchownat", "futimesat", "unlinkat", "renameat", "linkat",
   "symlinkat", "readlinkat", "fchmodat", "faccessat", "pselect", "ppoll",
   "unshare", "splice", "tee", "sync_file_range", "vmsplice"}

Recorded ==
  UNION {RecordedDirs, RecordedClosing, RecordedMemory, RecordedSockets,
         RecordedSync, RecordedFiles, RecordedIds, RecordedSignals, RecordedSched,
         RecordedAdmin, RecordedAttrs, RecordedTimers, RecordedWatches,
         RecordedAt}
\* These end the process,
Aborting ==
  {"freopen", "mincore", "shmctl", "shutdown", "semctl", "prctl", "pthread_exit"}
\* and these report success without doing anything.
Ignored ==
  {"recvmsg", "modify_ldt", "futex", "sched_yield", "pthread_setconcurrency",
   "pthread_attr_getstacksize"}

(***************************************************************************)
(* Dispatch.  A pointer of Real that is not resolved is null.              *)
(***************************************************************************)
Alive == h.phase \notin {"dead", "over"}
Done(s, name, target) ==
  h' = [s EXCEPT !.call = name, !.to = target,
                 !.phase = IF target \in {"abort", "null"} THEN "dead" ELSE @]
Real(s) == IF s.resolved THEN "real" ELSE "null"

InitRealFunctions(s) == [s EXCEPT !.funcInitialized = TRUE, !.resolved = TRUE]

\* initializer(): the runtime is set up once, whoever comes first.
SetUp(s) ==
  IF s.initialized THEN s
  ELSE [s EXCEPT !.initialized = TRUE, !.inits = @ + 1]
\* A mutant: the flag of the real functions stands for both.
InitializerOneFlag(s) ==
  IF s.funcInitialized THEN s
  ELSE [InitRealFunctions(s) EXCEPT !.initialized = TRUE, !.inits = @ + 1]
Initializer(s) == SetUp(IF s.funcInitialized THEN s ELSE InitRealFunctions(s))

MutexInit ==
  LET s == IF h.funcInitialized THEN h ELSE Initializer(h)
  IN  /\ Alive
      /\ Done(s, "pthread_mutex_init", IF s.initialized THEN "xthread" ELSE "nothing")
CallSync(name) ==
  /\ Alive
  /\ Done(h, name, IF h.initialized THEN "xthread" ELSE "nothing")
CallTimedWait ==
  /\ Alive
  /\ Done(h, "pthread_cond_timedwait", IF h.initialized THEN "xthread" ELSE "abort")
CallThread(name) == Alive /\ Done(h, name, "xthread")

CallFile(name) ==
  /\ Alive
  /\ Done(h, name, IF h.initialized THEN "recorder" ELSE Real(h))
CallWrite(fd) ==
  /\ Alive
  /\ Done(h, "write", IF h.initialized /\ fd \notin {1, 2} THEN "recorder" ELSE Real(h))
CallStream(name) ==
  LET s == IF h.initialized \/ h.funcInitialized THEN h ELSE InitRealFunctions(h)
  IN  Alive /\ Done(s, name, IF s.initialized THEN "recorder" ELSE Real(s))
CallMap(name) ==
  /\ Alive
  /\ Done(h, name, IF h.initialized /\ ~h.unchecked THEN "recorder" ELSE Real(h))
\* current is set by the runtime: before that it is null.
CallSignal(name) ==
  /\ Alive
  /\ Done(h, name, IF h.inits = 0 THEN "null"
                   ELSE IF h.unchecked THEN Real(h) ELSE "recorder")
CallRecorded(name) == Alive /\ Done(h, name, "recorder")
CallAborting(name) == Alive /\ Done(h, name, "abort")
CallIgnored(name) == Alive /\ Done(h, name, "nothing")

\* tempmalloc serves xxmalloc and xxrealloc until the runtime is there, and
\* aborts when it has no more; xxfree and the size query ignore its blocks.
XXMalloc(name) ==
  /\ Alive
  /\ IF h.initialized THEN Done(h, name, "xmemory")
     ELSE IF h.temp = TempUnits THEN Done(h, name, "abort")
     ELSE Done([h EXCEPT !.temp = @ + 1], name, "tempmalloc")
XXFree(name) == Alive /\ Done(h, name, IF h.initialized THEN "xmemory" ELSE "nothing")

\* call_dlsym: checks are off during the look-up, which maps memory, and
\* what they were afterwards.
CallDlsym ==
  /\ Alive
  /\ \/ h.initialized /\ ~h.unchecked /\ h.call # "dlsym"
        /\ h' = [h EXCEPT !.unchecked = TRUE, !.call = "dlsym", !.to = "none"]
     \/ h.unchecked /\ h' = [h EXCEPT !.unchecked = FALSE, !.call = "none", !.to = "none"]

\* The life of the process: the library's constructor, main, the destructor.
Constructor ==
  /\ h.phase = "loading"
  /\ h' = [Initializer(h) EXCEPT !.phase = "loaded", !.call = "none", !.to = "none"]
DoubleTakeMain ==
  /\ h.phase = "loaded"
  /\ h' = [Initializer(h) EXCEPT !.phase = "main", !.epoch = TRUE,
                                 !.call = "none", !.to = "none"]
Finalizer ==
  /\ h.phase = "main"
  /\ h' = [h EXCEPT !.phase = "leaving", !.funcInitialized = FALSE,
                    !.call = "none", !.to = "none"]
Exit == h.phase = "leaving" /\ h' = [h EXCEPT !.phase = "over"]

DTNext ==
  \/ Constructor \/ DoubleTakeMain \/ Finalizer \/ Exit \/ CallDlsym
  \/ MutexInit \/ CallTimedWait
  \/ \E n \in {"xxmalloc", "xxrealloc"} : XXMalloc(n)
  \/ \E n \in {"xxfree", "xxmalloc_usable_size"} : XXFree(n)
  \/ \E n \in SyncGuarded : CallSync(n)
  \/ \E n \in ThreadAlways : CallThread(n)
  \/ \E n \in UNION {FileGuarded, StreamClosing, PlaceGuarded} : CallFile(n)
  \/ \E fd \in 0 .. 3 : CallWrite(fd)
  \/ \E n \in StreamGuarded : CallStream(n)
  \/ \E n \in MapGuarded : CallMap(n)
  \/ \E n \in SignalGuarded \cup ExecGuarded : CallSignal(n)
  \/ \E n \in Recorded : CallRecorded(n)
  \/ \E n \in Aborting : CallAborting(n)
  \/ \E n \in Ignored : CallIgnored(n)

\* Whatever order the constructor, main and an early pthread_mutex_init come
\* in, the runtime is set up once and before the first epoch; from then on a
\* thread that is being checked reaches the real functions only through write
\* to the two standard streams; and opening a stream never meets a real
\* function that is not resolved (initializer and the guards of the wrappers).
Interposed ==
  /\ h.inits = (IF h.initialized THEN 1 ELSE 0)
  /\ h.epoch => h.initialized
  /\ h.epoch /\ h.to = "real" => h.call = "write" \/ h.unchecked
  /\ h.call \in StreamGuarded => h.to # "null"

DoubleTakeSpec == DTInit /\ [][DTNext]_h

\* The wrappers of libdoubletake.cpp: Interposed, in their states.
DoubleTakeInterposed == h.kind = "doubletake" => Interposed
=============================================================================
