------------------------------ MODULE AsyncFD ------------------------------
(***************************************************************************)
(* The asynchronous descriptor engine of src/src/aiofd.c, one aiofd_t on   *)
(* one event loop, with its owner and its descriptor as the environment.   *)
(*                                                                         *)
(* wbuf is the queue of aiofd_write_t records (data, iov, size, nleft);   *)
(* the queue itself lives in array.h, not under src/, so it is a sequence  *)
(* with push-tail / get-head / pop-head (IndexedList, refined to ListSeq,  *)
(* is the container of the same shape).  wevt / revt say whether the write *)
(* and read watchers are started.  A buffer is named by the number of the  *)
(* aiofd_write call that queued it, its bytes by <<buffer, offset>>.       *)
(*                                                                         *)
(* The event loop runs one handler at a time on one thread; hpc is where   *)
(* aiofd_write_fn is: "idle" (not running), "drain" (in its while loop),   *)
(* "done" (in the owner's write_fn for the buffer in cbuf), "empty" (in    *)
(* the owner's write_fn with a NULL buffer).  The owner's callbacks may    *)
(* call back into the engine; its calls from outside a callback happen    *)
(* while hpc is "idle".                                                    *)
(***************************************************************************)
EXTENDS Integers, Sequences, SequencesExt

CONSTANTS
  MaxWrites,     \* bound on aiofd_write / aiofd_writev calls per engine
  Lens,          \* byte counts of a queued request
  SizeMod,       \* 2^w for the w-bit size_t nleft
  PartialWrites, \* TRUE: write/writev may accept fewer bytes than offered
  FdMayFail,     \* TRUE: the descriptor may fail with a hard error
  KeepChoices,   \* what the owner's write_fn(NULL) may return
  OwnerToggles,  \* TRUE: the owner may disable watchers and delete the engine
  CallbackDeletes \* where the owner's callbacks may delete it: "none", "safe", "any"

ASSUME MaxWrites \in Nat \ {0} /\ Lens \subseteq 1 .. SizeMod - 1
ASSUME KeepChoices \subseteq BOOLEAN /\ KeepChoices # {}
ASSUME CallbackDeletes \in {"none", "safe", "any"}

NONE == 0   \* no buffer

VARIABLES
  alive,    \* between aiofd_initialize and aiofd_deinitialize
  wbuf, wevt, revt, hpc, cbuf,
  fd,       \* "ok" or "broken": the descriptor after a hard error
  \* history of this engine, for the properties
  enqd,     \* every request queued, in order
  sent,     \* every byte handed to write/writev and accepted
  done,     \* buffers reported by write_fn(buffer), in order
  uaf       \* the handler has touched the aiofd_t after the owner freed it

vars == <<alive, wbuf, wevt, revt, hpc, cbuf, fd, enqd, sent, done, uaf>>

Request == [data : 1 .. MaxWrites, iov : BOOLEAN, size : Lens, nleft : 0 .. SizeMod - 1]

Bytes(r) == [j \in 1 .. r.size |-> <<r.data, j - 1>>]

(***************************************************************************)
(* aiofd_initialize: empty queue, both watchers set up but not started.    *)
(***************************************************************************)
aiofd_initialize ==
  /\ alive' = TRUE
  /\ wbuf' = <<>> /\ wevt' = FALSE /\ revt' = FALSE
  /\ hpc' = "idle" /\ cbuf' = NONE
  /\ fd' = "ok"
  /\ enqd' = <<>> /\ sent' = <<>> /\ done' = <<>>

Init ==
  /\ fd = "ok"
  /\ alive = TRUE
  /\ wbuf = <<>> /\ wevt = FALSE /\ revt = FALSE
  /\ hpc = "idle" /\ cbuf = NONE
  /\ enqd = <<>> /\ sent = <<>> /\ done = <<>>
  /\ uaf = FALSE

(* Fault variants of aiofd_write_common (each a plausible slip in it):    *)
(* queueing at the head (array_push_head), and not starting the watcher.  *)
aiofd_write_common_at_head(n, iov) ==
  LET r == [data |-> Len(enqd) + 1, iov |-> iov, size |-> n, nleft |-> n]
  IN /\ Len(enqd) < MaxWrites
     /\ wbuf' = <<r>> \o wbuf
     /\ enqd' = Append(enqd, r)
     /\ wevt' = TRUE

aiofd_write_common_no_start(n, iov) ==
  LET r == [data |-> Len(enqd) + 1, iov |-> iov, size |-> n, nleft |-> n]
  IN /\ Len(enqd) < MaxWrites
     /\ wbuf' = Append(wbuf, r)
     /\ enqd' = Append(enqd, r)
     /\ wevt' = wevt

(***************************************************************************)
(* aiofd_write_common: queue [data, size, iov, nleft = total] at the tail  *)
(* and start the write watcher.  aiofd_write passes the byte count as both *)
(* size and total, aiofd_writev the segment count and the summed lengths: *)
(* either way write/writev will offer `size' bytes from the start.        *)
(***************************************************************************)
Enqueue(n, iov) ==
  LET r == [data |-> Len(enqd) + 1, iov |-> iov, size |-> n, nleft |-> n]
  IN /\ Len(enqd) < MaxWrites
     /\ wbuf' = Append(wbuf, r)
     /\ enqd' = Append(enqd, r)

aiofd_write_common(n, iov) == Enqueue(n, iov) /\ wevt' = TRUE

(* The owner queues a write from outside any callback.                    *)
OwnerWrite ==
  /\ alive /\ hpc = "idle"
  /\ \E n \in Lens, iov \in BOOLEAN : aiofd_write_common(n, iov)
  /\ UNCHANGED <<alive, revt, hpc, cbuf, fd, sent, done, uaf>>

(***************************************************************************)
(* The owner may call aiofd_delete from inside its callbacks: stop both    *)
(* watchers, free the queue, FREE the aiofd_t.  What the handler does      *)
(* next decides whether that is safe.  CallbackDeletes is "none" (never),  *)
(* "safe" (only where the handler then returns without reading the aiofd_t:*)
(* error_fn, or write_fn(NULL) / read_fn returning TRUE) or "any".          *)
(***************************************************************************)
DeleteKeeps == IF CallbackDeletes = "any" THEN BOOLEAN ELSE {TRUE}

DeleteInCallback ==
  /\ CallbackDeletes # "none"
  /\ alive' = FALSE
  /\ wbuf' = <<>> /\ wevt' = FALSE /\ revt' = FALSE

(***************************************************************************)
(* aiofd_write_fn.  The loop dispatches it while the write watcher is     *)
(* started.  Each turn of the while loop writes the head request from its *)
(* start (wb->data, wb->size) and subtracts what was accepted from nleft;  *)
(* at nleft 0 the head is popped and write_fn(buffer) called.  EAGAIN     *)
(* breaks the loop; any other error calls error_fn and returns at once.   *)
(* After the loop write_fn(NULL) is called, and its FALSE stops the        *)
(* write watcher.                                                          *)
(***************************************************************************)
WriteEvent ==
  /\ alive /\ wevt /\ hpc = "idle"
  /\ hpc' = "drain"
  /\ UNCHANGED <<alive, wbuf, wevt, revt, cbuf, fd, enqd, sent, done, uaf>>

(* Fault variants of WriteAccepted: the completed head is not popped, and *)
(* write_fn is handed NULL instead of the completed buffer.               *)
WriteAccepted_no_pop ==
  /\ hpc = "drain" /\ wbuf # <<>> /\ fd = "ok"
  /\ sent' = sent \o Bytes(Head(wbuf))
  /\ hpc' = "done" /\ cbuf' = Head(wbuf).data
  /\ UNCHANGED <<alive, wbuf, wevt, revt, fd, enqd, done, uaf>>

WriteAccepted_null_buffer ==
  /\ hpc = "drain" /\ wbuf # <<>> /\ fd = "ok"
  /\ sent' = sent \o Bytes(Head(wbuf))
  /\ wbuf' = Tail(wbuf)
  /\ hpc' = "done" /\ cbuf' = NONE
  /\ UNCHANGED <<alive, wevt, revt, fd, enqd, done, uaf>>

(* write/writev accepts k > 0 bytes: the first k of the buffer.            *)
WriteAccepted ==
  /\ hpc = "drain" /\ wbuf # <<>> /\ fd = "ok"
  /\ \E k \in IF PartialWrites THEN 1 .. Head(wbuf).size ELSE {Head(wbuf).size} :
       LET wb == Head(wbuf)
           nleft == (wb.nleft - k) % SizeMod
       IN /\ sent' = sent \o SubSeq(Bytes(wb), 1, k)
          /\ IF nleft = 0
             THEN /\ wbuf' = Tail(wbuf)
                  /\ hpc' = "done" /\ cbuf' = wb.data
             ELSE /\ wbuf' = [wbuf EXCEPT ![1].nleft = nleft]
                  /\ UNCHANGED <<hpc, cbuf>>
  /\ UNCHANGED <<alive, wevt, revt, fd, enqd, done, uaf>>

(* write/writev fails with EAGAIN: break out of the loop.                 *)
WriteWouldBlock ==
  /\ hpc = "drain" /\ wbuf # <<>> /\ fd = "ok"
  /\ hpc' = "empty"
  /\ UNCHANGED <<alive, wbuf, wevt, revt, cbuf, fd, enqd, sent, done, uaf>>

(* Fault variant of WriteError: stop the write watcher on the error (the    *)
(* "give up" a reader might expect), leaving the head queued.             *)
WriteError_stop ==
  /\ hpc = "drain" /\ wbuf # <<>>
  /\ FdMayFail \/ fd = "broken"
  /\ fd' \in IF fd = "broken" THEN {"broken"} ELSE {"ok", "broken"}
  /\ hpc' = "idle"
  /\ \/ wevt' = FALSE /\ UNCHANGED <<alive, wbuf, revt>>
     \/ DeleteInCallback
  /\ UNCHANGED <<cbuf, enqd, sent, done, uaf>>

(* Any other error: error_fn, then return EVT_OK with the watcher still    *)
(* started, so the next write event retries the head from its start.  The  *)
(* error may be transient (EINTR, ENOBUFS: the descriptor stays "ok" and   *)
(* the retry can succeed) or permanent (EPIPE, EBADF: "broken").  The      *)
(* owner's error_fn may delete the engine (safe here: the handler returns  *)
(* without touching it again).                                             *)
WriteError ==
  /\ hpc = "drain" /\ wbuf # <<>>
  /\ FdMayFail \/ fd = "broken"
  /\ fd' \in IF fd = "broken" THEN {"broken"} ELSE {"ok", "broken"}
  /\ hpc' = "idle"
  /\ \/ UNCHANGED <<alive, wbuf, wevt, revt>>
     \/ DeleteInCallback
  /\ UNCHANGED <<cbuf, enqd, sent, done, uaf>>

(* The queue is empty: leave the loop.                                    *)
WriteDrained ==
  /\ hpc = "drain" /\ wbuf = <<>>
  /\ hpc' = "empty"
  /\ UNCHANGED <<alive, wbuf, wevt, revt, cbuf, fd, enqd, sent, done, uaf>>

(* write_fn(buffer): the owner may queue another write from inside it;    *)
(* its return value is overwritten by the write_fn(NULL) call after the   *)
(* loop, so it has no effect.  If it deleted the engine, the loop's next   *)
(* array_size(&aiofd->wbuf) reads the freed aiofd_t.                       *)
WriteDoneCallback ==
  /\ hpc = "done"
  /\ done' = Append(done, cbuf)
  /\ cbuf' = NONE
  /\ \/ /\ hpc' = "drain"
        /\ \/ UNCHANGED <<wbuf, wevt, enqd>>
           \/ \E n \in Lens, iov \in BOOLEAN : aiofd_write_common(n, iov)
        /\ UNCHANGED <<alive, revt, uaf>>
     \/ /\ CallbackDeletes = "any" /\ DeleteInCallback
        /\ hpc' = "idle" /\ uaf' = TRUE
        /\ UNCHANGED enqd
  /\ UNCHANGED <<fd, sent>>

(* write_fn(NULL) after the loop, whether the queue drained or the write  *)
(* would block; the owner's FALSE makes the handler stop the write        *)
(* watcher, through aiofd->el and &aiofd->wevt, freed if it deleted.  The  *)
(* owner may queue a write inside it: aiofd_write_common starts the        *)
(* watcher, and a FALSE answer then stops it again.                        *)
WriteEmptyCallback ==
  /\ hpc = "empty"
  /\ \/ /\ \E keep \in KeepChoices :
           \/ wevt' = (wevt /\ keep) /\ UNCHANGED <<wbuf, enqd>>
           \/ \E n \in Lens, iov \in BOOLEAN : Enqueue(n, iov) /\ wevt' = keep
        /\ UNCHANGED <<alive, revt, uaf>>
     \/ /\ \E keep \in DeleteKeeps : DeleteInCallback /\ uaf' = (uaf \/ ~keep)
        /\ UNCHANGED enqd
  /\ hpc' = "idle"
  /\ UNCHANGED <<cbuf, fd, sent, done>>

(***************************************************************************)
(* aiofd_read_fn: FIONREAD, then read_fn(nread), whose FALSE stops the     *)
(* read watcher; an ioctl failure goes to error_fn instead.  Inside        *)
(* read_fn the owner may call aiofd_read (whose 0 or -1 result also goes   *)
(* to error_fn, which has no state here), may queue a write, and may       *)
(* delete the engine; error_fn may delete it too, and then the handler     *)
(* returns at once.                                                        *)
(***************************************************************************)
ReadEvent ==
  /\ alive /\ revt /\ hpc = "idle"
  /\ \/ UNCHANGED <<alive, wbuf, wevt, revt, enqd, uaf>>        \* ioctl failed
     \/ DeleteInCallback /\ UNCHANGED <<enqd, uaf>>              \* ... error_fn deletes
     \/ /\ \E keep \in BOOLEAN : revt' = keep                   \* read_fn
        /\ \/ UNCHANGED <<wbuf, wevt, enqd>>
           \/ \E n \in Lens, iov \in BOOLEAN : aiofd_write_common(n, iov)
        /\ UNCHANGED <<alive, uaf>>
     \/ /\ \E keep \in DeleteKeeps :                            \* read_fn deletes
             DeleteInCallback /\ uaf' = (uaf \/ ~keep)
        /\ UNCHANGED enqd
  /\ UNCHANGED <<hpc, cbuf, fd, sent, done>>

(***************************************************************************)
(* The owner's other calls from outside callbacks: enable / disable a      *)
(* watcher, aiofd_delete (stop both watchers, free the queued requests     *)
(* with no callback), and aiofd_initialize of a new engine afterwards.     *)
(***************************************************************************)
aiofd_enable_write_evt(enable) ==
  /\ alive /\ hpc = "idle" /\ OwnerToggles
  /\ wevt' = enable
  /\ UNCHANGED <<alive, wbuf, revt, hpc, cbuf, fd, enqd, sent, done, uaf>>

aiofd_enable_read_evt(enable) ==
  /\ alive /\ hpc = "idle"
  /\ OwnerToggles \/ enable
  /\ revt' = enable
  /\ UNCHANGED <<alive, wbuf, wevt, hpc, cbuf, fd, enqd, sent, done, uaf>>

aiofd_delete ==
  /\ alive /\ hpc = "idle" /\ OwnerToggles
  /\ alive' = FALSE
  /\ wbuf' = <<>> /\ wevt' = FALSE /\ revt' = FALSE
  /\ UNCHANGED <<hpc, cbuf, fd, enqd, sent, done, uaf>>

Reinitialize == ~alive /\ aiofd_initialize /\ UNCHANGED uaf

Next ==
  \/ OwnerWrite
  \/ WriteEvent \/ WriteAccepted \/ WriteWouldBlock \/ WriteError
  \/ WriteDrained \/ WriteDoneCallback \/ WriteEmptyCallback
  \/ ReadEvent
  \/ \E b \in BOOLEAN : aiofd_enable_write_evt(b) \/ aiofd_enable_read_evt(b)
  \/ aiofd_delete
  \/ Reinitialize

(***************************************************************************)
(* Fairness.  Once aiofd_write_fn runs, the thread runs it to the end:     *)
(* weak fairness on its steps.  The loop dispatches the write handler     *)
(* while the watcher is started (weak fairness), and the descriptor,      *)
(* drained by its peer, accepts a write infinitely often if it is offered  *)
(* one infinitely often (strong fairness: EAGAIN may come in between).     *)
(* The owner's own calls are not assumed to happen.                        *)
(***************************************************************************)
Fairness ==
  /\ WF_vars(WriteEvent)
  /\ SF_vars(WriteAccepted)
  /\ WF_vars(WriteDrained) /\ WF_vars(WriteDoneCallback) /\ WF_vars(WriteEmptyCallback)
  /\ WF_vars(WriteWouldBlock \/ WriteError)

Spec == Init /\ [][Next]_vars /\ Fairness

-----------------------------------------------------------------------------
Ids(s) == [i \in 1 .. Len(s) |-> s[i].data]

Pending == IF cbuf = NONE THEN <<>> ELSE <<cbuf>>

TypeOK ==
  /\ alive \in BOOLEAN /\ wevt \in BOOLEAN /\ revt \in BOOLEAN
  /\ wbuf \in Seq(Request) /\ enqd \in Seq(Request)
  /\ hpc \in {"idle", "drain", "done", "empty"}
  /\ cbuf \in {NONE} \cup 1 .. MaxWrites
  /\ fd \in {"ok", "broken"}
  /\ sent \in Seq((1 .. MaxWrites) \X (0 .. SizeMod - 1))
  /\ done \in Seq(1 .. MaxWrites)
  /\ uaf \in BOOLEAN

(* What the descriptor has accepted is a prefix of the bytes of the        *)
(* requests in the order aiofd_write / aiofd_writev queued them: the drain *)
(* loop of aiofd_write_fn never skips, repeats or reorders a byte, however *)
(* writes are split across events and callbacks queue more.               *)
StreamIntact == IsPrefix(sent, FlattenSeq([i \in 1 .. Len(enqd) |-> Bytes(enqd[i])]))

(* While the engine lives, every queued request is in exactly one place:   *)
(* already reported to write_fn, being reported, or still in wbuf, and in  *)
(* that order the buffers are the queueing order; a reported buffer has    *)
(* had every byte written.  (aiofd_write_fn pops at nleft 0 and calls      *)
(* write_fn with the popped buffer, in the loop's order.)                  *)
CompletionInOrder ==
  alive =>
    /\ done \o Pending \o Ids(wbuf) = Ids(enqd)
    /\ Len(sent) >= Len(FlattenSeq([i \in 1 .. Len(done) + Len(Pending) |-> Bytes(enqd[i])]))

(* The engine stops its own write watcher (write_fn(NULL) returning FALSE  *)
(* in aiofd_write_fn) only when nothing is left in the queue: a request    *)
(* queued is never left without a watcher by the engine itself.           *)
NoStopWhileQueued == [][(hpc = "empty" /\ wevt /\ ~wevt') => wbuf' = <<>>]_vars

(* Every queued request is eventually reported by write_fn(buffer), unless *)
(* the descriptor failed or the owner deleted the engine.                 *)
Resolved(i) == i \in Range(done) \/ fd = "broken" \/ ~alive

EventuallyWritten ==
  \A i \in 1 .. MaxWrites : (alive /\ i <= Len(enqd)) ~> Resolved(i)

(* The engine never reads its aiofd_t after the owner freed it from one of *)
(* its callbacks: aiofd_write_fn and aiofd_read_fn touch aiofd->wbuf,      *)
(* aiofd->el and aiofd->wevt / revt only while the engine is allocated.    *)
NoUseAfterFree == ~uaf

=============================================================================
