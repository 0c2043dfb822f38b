------------------------------ MODULE Sanitize ------------------------------
(***************************************************************************)
(* Process hygiene of src/src/sanitize.c, as a daemon uses it at start-up: *)
(* sanitize_files closes every inherited descriptor it is not asked to     *)
(* keep and makes sure 0, 1 and 2 are open; build_clean_environ sizes and  *)
(* fills one CALLOCed block with a fresh environment for the next exec.    *)
(*                                                                         *)
(* `open' is the process's descriptor table (the set of open numbers),     *)
(* `env' its environment (a name's value length, or ABSENT).  Strings are  *)
(* abstracted to their lengths: the properties are about sizes.  `phase'   *)
(* is where the program is: "start" (before the calls; the inherited       *)
(* descriptors and environment vary freely), "sanitized" / "failed" (what  *)
(* sanitize_files returned), "built" (build_clean_environ returned).       *)
(***************************************************************************)
EXTENDS Integers, Sequences, SequencesExt, FiniteSets

CONSTANTS
  MaxFd,          \* descriptors are 0 .. MaxFd - 1 (RLIMIT_NOFILE)
  DtableSizes,    \* what GETDTABLESIZE() may return (-1: failure)
  OPEN_MAX,       \* the fallback table size
  KeepArgs,       \* keep[] arrays passed to sanitize_files (nfds = Len)
  FstatMayFail,   \* fstat on an open descriptor may fail with errno # EBADF
  DevNullMayFail, \* freopen(_PATH_DEVNULL) may fail
  Names,          \* environment variable names
  NameLen,        \* strlen of each name
  ValueLens,      \* value lengths setenv may give
  STDPATH_LEN,    \* strlen(_PATH_STDPATH)
  PtrSize,        \* sizeof(int8_t *)
  PreserveArgs,   \* [c: preservec, v: preservev] passed to build_clean_environ
  AddArgs,        \* [c: addc, v: addv], addv entries [name, vlen] ("NAME=VALUE")
  AllocMayFail,   \* CALLOC may return NULL
  NULL

ASSUME {"IFS", "PATH", "TZ"} \subseteq Names /\ NameLen \in [Names -> Nat \ {0}]
ASSUME DtableSizes \subseteq {-1} \cup Nat /\ OPEN_MAX \in Nat

Fds == 0 .. MaxFd - 1
Std == {0, 1, 2}          \* STDIN_FILENO .. STDERR_FILENO
ABSENT == -1              \* getenv returns NULL

VARIABLES
  open, env, phase,
  keep,     \* the descriptors the last sanitize_files call was asked to keep
  fault,    \* that call failed because an OS call failed
  built     \* what build_clean_environ returned (sizes and entries), or NULL

vars == <<open, env, phase, keep, fault, built>>

Init ==
  /\ open = Std /\ env = [n \in Names |-> ABSENT]
  /\ phase = "start" /\ keep = {} /\ fault = FALSE /\ built = NULL

(***************************************************************************)
(* Before the calls: the parent and the program's own start-up open       *)
(* (at the lowest free number, as open(2) does) and close descriptors and  *)
(* set and unset variables.                                                *)
(***************************************************************************)
OpenFile ==
  /\ phase = "start" /\ Fds \ open # {}
  /\ open' = open \cup {Min(Fds \ open)}
  /\ UNCHANGED <<env, phase, keep, fault, built>>

CloseFile(fd) ==
  /\ phase = "start" /\ fd \in open
  /\ open' = open \ {fd}
  /\ UNCHANGED <<env, phase, keep, fault, built>>

SetEnv(n, l) ==
  /\ phase = "start"
  /\ env' = [env EXCEPT ![n] = l]
  /\ UNCHANGED <<open, phase, keep, fault, built>>

(***************************************************************************)
(* open_devnull(fd): freopen(_PATH_DEVNULL) on the stream of fd; the new   *)
(* descriptor is the lowest free one, and the call succeeds only if that   *)
(* is fd.  Returns the table afterwards and why it failed.                 *)
(***************************************************************************)
open_devnull(fd, o, nul) ==
  IF fd \in nul THEN [ok |-> FALSE, open |-> o, why |-> "freopen"]
  ELSE LET nf == Min(Fds \ o)
       IN [ok |-> nf = fd, open |-> o \cup {nf}, why |-> "fileno"]

(* Fault variant of the check loop: descriptors 2, 1, 0 in that order.    *)
RECURSIVE StdCheck_down(_, _, _, _)
StdCheck_down(fd, o, bad, nul) ==
  LET d == 2 - fd
  IN IF fd > 2 THEN [ret |-> TRUE, open |-> o, why |-> "none"]
     ELSE IF d \in o
     THEN IF d \in bad THEN [ret |-> FALSE, open |-> o, why |-> "fstat"]
          ELSE StdCheck_down(fd + 1, o, bad, nul)
     ELSE LET r == open_devnull(d, o, nul)
          IN IF r.ok THEN StdCheck_down(fd + 1, r.open, bad, nul)
             ELSE [ret |-> FALSE, open |-> r.open, why |-> r.why]

(* for fd in 0..2: FSTAT fails and (errno != EBADF or !open_devnull(fd))  *)
(* returns FALSE.  bad: open descriptors whose fstat fails otherwise,     *)
(* nul: closed ones whose freopen fails (the close loop leaves 0..2).      *)
RECURSIVE StdCheck(_, _, _, _)
StdCheck(fd, o, bad, nul) ==
  IF fd > 2 THEN [ret |-> TRUE, open |-> o, why |-> "none"]
  ELSE IF fd \in o
  THEN IF fd \in bad THEN [ret |-> FALSE, open |-> o, why |-> "fstat"]
       ELSE StdCheck(fd + 1, o, bad, nul)
  ELSE LET r == open_devnull(fd, o, nul)
       IN IF r.ok THEN StdCheck(fd + 1, r.open, bad, nul)
          ELSE [ret |-> FALSE, open |-> r.open, why |-> r.why]

(* Fault variant of the close loop: fd < fds - 1.                          *)
CloseLoop_short(k, fds) == {fd \in 3 .. fds - 2 : fd \notin ToSet(k)}

(* for fd in 3..fds-1: close(fd) unless some keep[i] == fd.                *)
CloseLoop(k, fds) == {fd \in 3 .. fds - 1 : fd \notin ToSet(k)}

sanitize_files(k, dt) ==
  LET fds == IF dt = -1 THEN OPEN_MAX ELSE dt
  IN \E bad \in (IF FstatMayFail THEN SUBSET (Std \cap open) ELSE {{}}),
        nul \in (IF DevNullMayFail THEN SUBSET (Std \ open) ELSE {{}}) :
       LET r == StdCheck(0, open \ CloseLoop(k, fds), bad, nul)
       IN /\ phase = "start"
          /\ open' = r.open
          /\ phase' = IF r.ret THEN "sanitized" ELSE "failed"
          /\ keep' = ToSet(k)
          /\ fault' = (r.why \in {"fstat", "freopen"})
          /\ UNCHANGED <<env, built>>

(***************************************************************************)
(* build_clean_environ(preservec, preservev, addc, addv).  clean_environ   *)
(* is IFS=" \t\n" and PATH=_PATH_STDPATH, preserve_environ is TZ.  A       *)
(* client array is read while i < count and the entry is not NULL, and     *)
(* only if count > 0 and the array is not NULL.  The size pass counts      *)
(* bytes (new_size) and pointers (arr_size, from 1 for the terminator),    *)
(* then adds arr_size pointers; the copy pass calls getenv again and       *)
(* writes a pointer (arr_ptr) and the string (ptr) for each entry.         *)
(***************************************************************************)
clean_environ == <<[name |-> "IFS", vlen |-> 3], [name |-> "PATH", vlen |-> STDPATH_LEN]>>

preserve_environ == <<"TZ">>

Scanned(c, v) ==
  IF c > 0 /\ v # NULL
  THEN SubSeq(v, 1, Min({c, SelectInSeq(v, LAMBDA x : x = NULL) - 1}))
  ELSE <<>>

Strlen(e) == NameLen[e.name] + 1 + e.vlen    \* strlen("NAME=VALUE")

(* Fault variant: arr_size starts at 0, no slot for the NULL terminator.  *)
SizeStart_zero == [new_size |-> 0, arr_size |-> 0]

SizeStart == [new_size |-> 0, arr_size |-> 1]

SizePass(p, a) ==
  LET clean(acc, e) == [new_size |-> acc.new_size + Strlen(e) + 1, arr_size |-> acc.arr_size + 1]
      pres(acc, var) ==
        IF env[var] = ABSENT THEN acc
        ELSE [new_size |-> acc.new_size + NameLen[var] + env[var] + 2, arr_size |-> acc.arr_size + 1]
      add(acc, e) == [new_size |-> acc.new_size + Strlen(e) + 1, arr_size |-> acc.arr_size + 1]
      s == FoldLeft(add, FoldLeft(pres, FoldLeft(pres, FoldLeft(clean, SizeStart, clean_environ),
                                                 preserve_environ), Scanned(p.c, p.v)),
                    Scanned(a.c, a.v))
  IN [s EXCEPT !.new_size = @ + s.arr_size * PtrSize]

(* Fault variant of the copy pass: the preserve loops without the         *)
(* `if (!(value = getenv(var))) continue;' check.                          *)
CopyPass_no_getenv_check(p, a) ==
  LET copy(acc, e) == [arr_ptr |-> acc.arr_ptr + 1, bytes |-> acc.bytes + Strlen(e) + 1,
                       entries |-> Append(acc.entries, e)]
      pres(acc, var) ==
        [arr_ptr |-> acc.arr_ptr + 1, bytes |-> acc.bytes + NameLen[var] + env[var] + 2,
         entries |-> Append(acc.entries, [name |-> var, vlen |-> env[var]])]
  IN FoldLeft(copy, FoldLeft(pres, FoldLeft(pres, FoldLeft(copy,
       [arr_ptr |-> 0, bytes |-> 0, entries |-> <<>>], clean_environ),
       preserve_environ), Scanned(p.c, p.v)), Scanned(a.c, a.v))

CopyPass(p, a) ==
  LET copy(acc, e) == [arr_ptr |-> acc.arr_ptr + 1, bytes |-> acc.bytes + Strlen(e) + 1,
                       entries |-> Append(acc.entries, e)]
      pres(acc, var) ==
        IF env[var] = ABSENT THEN acc
        ELSE [arr_ptr |-> acc.arr_ptr + 1, bytes |-> acc.bytes + NameLen[var] + env[var] + 2,
              entries |-> Append(acc.entries, [name |-> var, vlen |-> env[var]])]
  IN FoldLeft(copy, FoldLeft(pres, FoldLeft(pres, FoldLeft(copy,
       [arr_ptr |-> 0, bytes |-> 0, entries |-> <<>>], clean_environ),
       preserve_environ), Scanned(p.c, p.v)), Scanned(a.c, a.v))

build_clean_environ(p, a) ==
  /\ phase = "sanitized"
  /\ \/ /\ built' = SizePass(p, a) @@ CopyPass(p, a)
        /\ phase' = "built"
     \/ AllocMayFail /\ built' = NULL /\ UNCHANGED phase
  /\ UNCHANGED <<open, env, keep, fault>>

(***************************************************************************)
(* What follows: exec with the new environment (the first NAME= entry of   *)
(* a name is the one getenv finds), or with the old one; after a failure   *)
(* the program exits and is run again with what it had.  Descriptors are   *)
(* inherited across exec.                                                  *)
(***************************************************************************)
ExecEnv(entries) ==
  [n \in Names |-> LET i == SelectInSeq(entries, LAMBDA e : e.name = n)
                   IN IF i = 0 THEN ABSENT ELSE entries[i].vlen]

Exec ==
  /\ phase \in {"sanitized", "built", "failed"}
  /\ env' = IF phase = "built" THEN ExecEnv(built.entries) ELSE env
  /\ phase' = "start" /\ built' = NULL
  /\ UNCHANGED <<open, keep, fault>>

Next ==
  \/ OpenFile
  \/ \E fd \in Fds : CloseFile(fd)
  \/ \E n \in Names, l \in {ABSENT} \cup ValueLens : SetEnv(n, l)
  \/ \E k \in KeepArgs, dt \in DtableSizes : sanitize_files(k, dt)
  \/ \E p \in PreserveArgs, a \in AddArgs : build_clean_environ(p, a)
  \/ Exec

Spec == Init /\ [][Next]_vars

-----------------------------------------------------------------------------
TypeOK ==
  /\ open \subseteq Fds
  /\ env \in [Names -> {ABSENT} \cup Nat]
  /\ phase \in {"start", "sanitized", "failed", "built"}
  /\ keep \subseteq Nat /\ fault \in BOOLEAN
  /\ built = NULL \/
     built \in [new_size : Nat, arr_size : Nat, arr_ptr : Nat, bytes : Nat,
               entries : Seq([name : Names, vlen : Nat])]

(* When sanitize_files returns TRUE, 0, 1 and 2 are open and no other      *)
(* descriptor is open unless the caller asked to keep it: the close loop   *)
(* reaches the top of the table and the check loop's freopen lands each   *)
(* standard stream on its own number.                                      *)
SanitizedOnSuccess ==
  phase = "sanitized" => Std \subseteq open /\ open \ Std \subseteq keep

(* sanitize_files returns FALSE only when fstat or freopen itself failed,  *)
(* never because the descriptor open_devnull got was not the one it was    *)
(* repairing (the check loop goes upwards, so every lower one is open).    *)
SanitizeFailsOnlyOnOSError == phase = "failed" => fault

(* The copy pass of build_clean_environ stays inside the block the size    *)
(* pass allocated: it writes at most arr_size - 1 pointers, leaving the    *)
(* CALLOC-zeroed NULL terminator, and its strings fit after them.          *)
EnvFits ==
  built # NULL =>
    /\ built.arr_ptr <= built.arr_size - 1
    /\ built.arr_size * PtrSize + built.bytes <= built.new_size

=============================================================================
