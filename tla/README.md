# TLA+ models of cutil

Model-checked specifications of the C library in `src/src`: the indexed list (`list.c`), the
asynchronous descriptor engine (`aiofd.c`), the bit set (`bitset.c`) and process hygiene
(`sanitize.c`). Each module is
translated from the C source. Each run below is a TLC configuration in this directory, and
`PROJECT.json` records what every definition maps to in the source.

## 1. The system

| Part | Source | State | Operations | Interacts with |
|------|--------|-------|------------|----------------|
| IndexedList | `list.c` | `list_t`: `items` array (`next`, `prev`, `used`, `data`), `size`, `count`, `used_head`, `free_head`, `dfn` | `list_new/init`, `list_push(data, itr)`, `list_pop(itr)`, `list_reserve`, `list_clear`, `list_deinit/delete`; read-only `list_get`, `list_count`, iterators | The spec describes it as the container under the write queue. |
| AsyncFD | `aiofd.c` | `wbuf` (queue of `aiofd_write_t`: `data`, `size`, `iov`, `nleft`), watchers `wevt`/`revt`, the owner's `ops` callbacks | `aiofd_new/initialize`, `aiofd_write`, `aiofd_writev`, `aiofd_read`, `aiofd_enable_write_evt`, `aiofd_enable_read_evt`, `aiofd_flush`, `aiofd_delete/deinitialize`; handlers `aiofd_write_fn`, `aiofd_read_fn` | The event loop dispatches its handlers. The handlers call the owner's `write_fn`, `read_fn` and `error_fn`, and those may call back into the engine. |
| WriteQueue | `array.h` (not in `src/`) | sequence of requests | push tail, get head, pop head | AsyncFD |
| EventLoop | `events.h` (declarations only) | started/stopped watchers | start, stop, dispatch | AsyncFD |
| Bitset | `bitset.c` | `bits` (array of `uint32_t`), `num_bits` | `bset_new/initialize`, `bset_set`, `bset_clear`, `bset_test`, `bset_clear_all`, `bset_set_all`, `bset_deinitialize/delete` | none |
| Sanitize | `sanitize.c` | the process's descriptor table and environment (OS state) | `sanitize_files(keep, nfds)`, `build_clean_environ(preservec, preservev, addc, addv)` | the OS: `getdtablesize`, `close`, `fstat`, `freopen`, `getenv`, `CALLOC` |

Everything runs on one thread. The only interleaving is re-entrancy: the owner's callbacks
run in the middle of `aiofd_write_fn` and may queue writes, stop a watcher by their answer, or
delete the engine. The environment supplies the other non-determinism: how many bytes the descriptor
accepts, EAGAIN, transient and permanent write errors, and what the owner's callbacks answer.

### Hard behaviours

- **List growth renumbers every handle.** `list_push` into a full list finds the ordinal of
  the caller's handle, grows the array, and walks the same ordinal from the new head. Any
  other handle the caller holds becomes stale.
- **Handles are checked only in some cases.** `list_pop` checks range and the used flag, but
  reads `items[-1]` for `pop(END)` on an empty list. `list_push` checks the handle only
  when it must grow.
- **Two circular chains share one array.** Singleton removal and empty insertion are special
  cases in `remove_item`/`insert_item`.
- **The drain loop calls out and continues.** `write_fn(buffer)` runs inside the loop and may
  append to the queue being drained.
- **Partial writes.** Only `nleft` is decreased, and the buffer is offered again from its
  start.
- **EAGAIN.** It breaks out of the loop into `write_fn(NULL)`, the "queue empty" signal,
  whose answer may stop the write watcher.
- **Write errors.** Any error but EAGAIN calls `error_fn` and returns with the watcher on,
  so the next event retries the same request from its start. After a transient error
  (EINTR, ENOBUFS) that retry is what delivers the queue; after a permanent one (EPIPE,
  EBADF) `error_fn` is called again on every event.
- **Deleting the engine from a callback.** `aiofd_delete` frees the `aiofd_t`, and the
  handler that called the owner goes on: the drain loop reads `aiofd->wbuf`, and a FALSE
  answer makes it stop a watcher through `aiofd->el`.
- **`open_devnull` relies on the loop order.** `freopen` opens the lowest free descriptor,
  which is the one being repaired only because 0, 1, 2 are checked upwards.
- **Two passes over the environment.** `build_clean_environ` sizes the block in one pass and
  fills it in another, calling `getenv` again.
- **Bit-set macros.** `DWORD_INDEX(x) = x & ~0x1f` is not `x >> 5`. It is safe only because
  `DWORDS_NEEDED` over-allocates by the same factor.

### What makes each part correct

- **IndexedList.** Both chains stay circular, disjoint and covering, and the used flags
  match. The list read through its iterators behaves as a sequence under insert-at and
  remove-at, also across growth and failed allocation. Pop returns the successor, or END
  for the tail.
- **AsyncFD.** The descriptor sees each request's bytes once, in queue order. `write_fn`
  reports each request once, in order, after all its bytes. The engine never stops its
  watcher with data queued. Every queued request is eventually written while the descriptor
  works.
- **AsyncFD and its owner.** A callback that deletes the engine is never followed by a
  read of the freed engine, if the owner deletes only where the handler returns at once.
- **Sanitize.** After `sanitize_files` returns TRUE exactly 0, 1, 2 and the kept descriptors
  are open; it returns FALSE only on an OS failure. The copy pass of `build_clean_environ`
  stays inside the block the size pass allocated, with room for the NULL terminator.
- **Bitset.** Every word touched is allocated, and `bset_test` agrees with the bits set and
  cleared.

## 2. Modules

| Module | Models | Role |
|--------|--------|------|
| `ListSeq` | spec 4.1 | Abstract: a sequence of payloads. Each step is the call named by `call`: push at a position, pop at a position, clear/deinit (with the payloads handed to the destructor), or reserve/init (no change). |
| `IndexedList` | `list.c` | Detailed list. `list` is the `list_t`. `remove_item`, `insert_item` and `list_grow` (with `Doubled`, `FreeInit` and `MoveUsed` for its three loops) are operators. Each public call is one action that includes its growth and failure paths: `list_push`, `list_pop`, `list_reserve`, `list_clear`, `list_deinit`, `Reinit`. Ghosts: `ret` (the C return value), `call` (the call in positions, for the refinement) and `live`. |
| `MCIndexedList` | | TLC instance, symmetry over payloads. |
| `AsyncFD` | `aiofd.c` | The engine with its owner and descriptor as environment (see below). |
| `MCAsyncFD` | | TLC instance. |
| `Bitset` | `bitset.c` | Words as sets of bit positions. The three macros are operators in w-bit `size_t` arithmetic. |
| `MCBitset` | | TLC instance. |
| `Sanitize` | `sanitize.c` | `sanitize_files` and `build_clean_environ` as actions on the process's descriptor table and environment, with the daemon's start-up, exec and restart as environment actions. |
| `MCSanitize` | | TLC instance: names, their lengths and the argument arrays. |

### IndexedList and the refinement

`IndexedList` implements `ListSeq` under the mapping `seq <- Payloads(list)`.
`Payloads(list)` is the list read with `list_itr_begin`/`list_itr_next`/`list_get`, the
code's own iterators. `call` carries the call's position, payload and success. The
`Refinement` property (`Abstract!Spec`) thus checks every step:
- a push at handle `h` inserts at `h`'s position, also when the array grew and `h` was
  re-derived;
- a pop removes exactly the item at its position;
- growth and reserve keep the order;
- clear and deinit hand the stored payloads, in iteration order, to the destructor, if
  there is one.

`WellFormed` is the structural invariant of the two chains. It also checks that the code's
iterators traverse the used chain forwards and backwards.

`Doubled` is the `do ... while (new_size < list->size + amount)` loop of `list_grow` in
w-bit `uint_t` arithmetic (`UintMod = 2^w`): the shift and the sum both wrap. Once the
shift reaches 0 it stays 0 and the C loop never ends; `Doubled` returns the sentinel
`NoReturn` for that case. `GrowCapacityLeast` compares it, in every reachable state and
for every amount of the w-bit type, with `LeastDoubling`, the smallest `size * 2^k` that
holds `list.size + amount`. When that sum fits, the loop either never returns or returns
room for the request, and it returns the least doubling whenever that is representable.
With 4 bits and the reachable capacities 1 to 4 (3 through `list_reserve(3)`), the larger
amounts make the shift reach 0, the
`NoReturn` case; with 32 bits the shift reaches 0 from any size with no odd factor
once the request passes 2^31, which is what the hazard at `list.c:439` describes.

Inputs:
- the payloads are model values `Data`;
- the handles are END plus the used slots. With `StaleHandles` they are any slot in range;
  pop also tries the out-of-range handle `size`;
- the capacities come from `InitCaps`, and growth is bounded by `MaxSize`;
- `AllocMayFail` lets every CALLOC fail;
- `UBReads` is what the undefined read of `items[-1].used` can return.

### AsyncFD

The state is:
- `wbuf`, `wevt`, `revt` and `alive`;
- `hpc`, where `aiofd_write_fn` is: idle, in the loop, in `write_fn(buffer)` for `cbuf`,
  or in `write_fn(NULL)`;
- `fd`, ok or broken (a permanent error; a transient one leaves it ok);
- the history of this engine: `enqd` (requests queued), `sent` (bytes accepted, as
  `<<request, offset>>`) and `done` (buffers reported).

Each turn of the drain loop is one action:
- `WriteAccepted`: k bytes of the buffer from its start. `nleft` is decreased modulo
  `SizeMod`; at 0 the request is popped.
- `WriteWouldBlock`: EAGAIN.
- `WriteError`: a transient or permanent error, then `error_fn`, which may delete the
  engine; the watcher stays started. `WriteError_stop` is the variant that stops it.
- `WriteDrained`: the queue is empty.

The callbacks are their own steps:
- `WriteDoneCallback`: the owner may queue another write from inside it. Its return value
  is ignored, because the code overwrites it.
- `WriteEmptyCallback`: the owner may queue a write from inside it (`Enqueue`, then the
  watcher start of `aiofd_write_common`), and its answer, from `KeepChoices`, may then stop
  the watcher.

`ReadEvent` is `aiofd_read_fn`. Either its ioctl fails (and `error_fn` may delete the
engine), or `read_fn` answers whether to keep the read watcher, and may queue a write or
delete the engine.

`CallbackDeletes` says where the owner's callbacks may call `aiofd_delete`: nowhere
(`"none"`), only where the handler then returns without reading the engine (`"safe"`:
`error_fn`, or `write_fn(NULL)`/`read_fn` answering TRUE), or anywhere (`"any"`). A deletion
is `DeleteInCallback`, `aiofd_deinitialize` plus the FREE. The ghost `uaf` records that the
handler went on to read the freed `aiofd_t`: the drain loop after `write_fn(buffer)`, or
`evt_stop_event_handler(aiofd->el, ...)` after a FALSE answer. The model stops the handler
there. The owner's calls from outside callbacks are
`OwnerWrite` (`aiofd_write`/`aiofd_writev`), the two enable calls, `aiofd_delete` and a
fresh `aiofd_initialize`.

The array.h queue is a sequence (push-tail, head, pop-head): its code is not in `src/`.

### Sanitize

The state is:
- `open`, the set of open descriptor numbers;
- `env`, each name's value length, or `ABSENT`;
- `phase`: before the calls, after `sanitize_files` returned TRUE or FALSE, or after
  `build_clean_environ` returned;
- the ghosts `keep` (the last `keep[]`), `fault` (the last failure came from `fstat` or
  `freopen`) and `built` (the sizes and entries of the new environment, or NULL).

Before the calls, `OpenFile` (lowest free number, as `open(2)`), `CloseFile` and `SetEnv`
produce any inherited table and environment. `sanitize_files(k, dt)` is one action:
- `CloseLoop` is the set closed by the first loop, over `3 .. fds-1` with `fds` from
  `GETDTABLESIZE()` or `OPEN_MAX`, skipping `keep[]`;
- `StdCheck` is the second loop, recursive over 0, 1, 2. An open descriptor may fail
  `fstat` with another errno (set `bad`). A closed one goes to `open_devnull`, which may
  fail (set `nul`) or open the lowest free descriptor and compare it with `fd`.

`build_clean_environ(p, a)` computes `SizePass` and `CopyPass`, each a fold over the four
loops of its pass. `Scanned` is the bound of a client loop: `count > 0`, a non-NULL array,
`i < count` and the entry not NULL. `SizeStart` starts `arr_size` at 1 for the terminator.
CALLOC may fail. `Exec` then runs the next program with the new environment (the first
entry of a name wins, as in `getenv`), or with the old one, and with the same descriptors.

### Bitset

The state is `bset` (`bits`: word index → set of bit positions, and `num_bits`), `alive`,
and `ref`, the bits set and not cleared. A CALLOC of 0 words may return NULL or a pointer
to nothing.

## 3. Runs

| Run | Config | Expect | Checks | Bounds |
|-----|--------|--------|--------|--------|
| `list_core` | `MCIndexedList.cfg` | pass | `TypeOK`, `WellFormed`, `GrowCapacityLeast`, `Refinement` | 2 payloads (symmetric), initial capacity 0–2, capacity ≤ 4, allocation may fail, 4-bit count, every request of a 4-bit `uint_t` for the doubling loop (12k states). |
| `list_stale_handle` | `MCIndexedList_stale.cfg` | violation | `WellFormed` | Handles of free slots allowed. |
| `list_pop_empty` | `MCIndexedList_popempty.cfg` | violation | `WellFormed` | `items[-1].used` may read true. |
| `list_pop_tail_return` | `MCIndexedList_poptail.cfg` | violation | `PopReturnsSuccessor` | as `list_core` |
| `aiofd_safety` | `MCAsyncFD.cfg` | pass | `TypeOK`, `StreamIntact`, `CompletionInOrder` | 4 writes of 1–3 bytes, whole writes, transient and permanent write errors, owner toggles and deletes, `write_fn(NULL)` answers either way and may queue, callbacks delete where it is safe (120k states). |
| `aiofd_liveness` | `MCAsyncFD_live.cfg` | pass | `EventuallyWritten` | The owner keeps the watcher on (`KeepChoices = {TRUE}`) and never disables it; callbacks may delete anywhere; write errors may be transient, so requests must survive them through the retry. |
| `aiofd_callback_delete` | `MCAsyncFD_cbdelete.cfg` | violation | `NoUseAfterFree` | Callbacks may delete anywhere, 2 one-byte writes. |
| `aiofd_partial_write` | `MCAsyncFD_partial.cfg` | violation | `StreamIntact` | Partial writes allowed, 2 writes. |
| `aiofd_would_block` | `MCAsyncFD_wouldblock.cfg` | violation | `NoStopWhileQueued` | `write_fn(NULL)` may answer FALSE. |
| `bitset_core` | `MCBitset.cfg` | pass | `TypeOK`, `InBounds`, `BitsAgree` | num_bits 2, 33, 64; bits 0, 1, 31, 32, 33, 63; 8-bit `size_t`. |
| `bitset_size_wrap` | `MCBitset_wrap.cfg` | violation | `InBounds` | num_bits 240 with 8-bit `size_t`. |
| `sanitize_core` | `MCSanitize.cfg` | pass | `TypeOK`, `SanitizedOnSuccess`, `SanitizeFailsOnlyOnOSError`, `EnvFits` | 5 descriptors; table size -1 (`OPEN_MAX` 5), 5 or 7; keep `{}`, `{3}`, `{4, 1}`; `fstat` and `freopen` may fail; 4 names with values of length 0 or 1; 3 `preservev` and 2 `addv` arguments (37k states). |

Why the bounds are enough:
- **List.** A capacity of 4 with initial capacities 0, 1 and 2 reaches:
  - growth from 0 (to `amount`), from 1 to 2, and from 2 to 4 (doubling);
  - growth with the caller's handle at every ordinal;
  - pushes before the head, the middle and the tail;
  - pops of the head, a middle item, the tail and a singleton;
  - failed growth.

  Two payloads are enough to tell any reordering apart, because each pair of positions can
  hold different payloads.
- **AsyncFD.** Four requests allow one queued behind another while two more are queued from
  inside `write_fn`; lengths 1 to 3 use every non-zero value of the 2-bit `nleft`.
- **Sanitize.** Five descriptors give two above the standard ones, so a kept and a closed
  descriptor coexist, and any of 0, 1, 2 can be closed while a higher one is open: the case
  where a downward check would put `/dev/null` on the wrong number. The `preservev`
  arguments stop at the count and at the NULL, and repeat `TZ`; value length 0 is a set but
  empty variable, which `getenv` still returns. The table sizes never fall below an open
  descriptor (see section 5).
- **Bitset.** 33 bits cross a word boundary; 64 bits fill two words exactly.

### Findings

1. **`list.c:329`.** `pop(END)` on an empty list with storage reads `items[-1]`. If that
   reads as used, the free chain is lost and `count` wraps.
2. **`list.c:348`.** Popping the tail by its handle returns the head, not END. Spec 4.1 says
   END.
3. **`list.c:297/303`.** `list_push` links a new item before a free slot. Spec 7 says invalid
   handles cause no mutation.
4. **`aiofd.c:62`.** After a partial write the first bytes are resent, and `nleft` can wrap.
   Spec 8/9 disagree.
5. **`aiofd.c:113`.** On EAGAIN, `write_fn(NULL)` is called with data queued, and its FALSE
   stops the watcher. Spec 4.2 says EAGAIN fires no callback and the watcher is stopped only
   when the queue is empty.
6. **`bitset.c:21`.** `DWORDS_NEEDED` wraps for `num_bits` within 31 of `SIZE_MAX`. This is
   real but only for absurd sizes.
7. **`aiofd.c:51/119/159`.** An owner that deletes the engine from `write_fn(buffer)`, or from
   `write_fn(NULL)`/`read_fn` and answers FALSE, makes the handler read the freed engine.
   The spec does not say whether the engine may be destroyed from its own callbacks.

Every property of a passing run has a mutant in `PROJECT.json`: a fault variant defined next
to the operator it replaces, which TLC must reject.

## 4. Fairness

Only `aiofd_liveness` uses fairness; the other runs check safety. Its callbacks may delete
the engine anywhere: after a deletion every request counts as resolved, so the run shows
that no callback answer leaves a request pending while the engine lives.
- **Weak fairness on the handler's internal steps.** Once `aiofd_write_fn` runs, the loop
  thread runs it to completion.
- **Weak fairness on `WriteEvent`.** The loop dispatches a started watcher whose descriptor
  is ready.
- **Strong fairness on `WriteAccepted`.** A descriptor whose peer reads accepts a write
  infinitely often if offered one infinitely often; EAGAIN and transient errors may
  intervene any finite number of times. A permanent error resolves the request instead.
- **None on the owner.** No fairness is assumed for the owner's calls.

## 5. Not modelled, and the plan

Not modelled:
- The event-loop implementation (only declared in `events.h`), and the `array.c` queue with
  its destructor; both are outside `src/`. Whether `array_pop_head` runs the `FREE`
  destructor before `write_fn` reads `wb->data` depends on that code, so it is not listed
  as a hazard of this code.
- Watcher registration. `events.h:109` declares `evt_initialize_event_handler` with five
  parameters; `aiofd.c:223` and `:237` call it with six, passing `aiofd->el` while it is
  still 0 after the `MEMSET`. The two files do not describe one interface, so neither side
  can be modelled as the other's contract; `AsyncFD` starts from registered watchers.
- `aiofd_writev`'s total. It is summed in `size_t` over buffers that must all exist in
  memory, so it cannot wrap on a real system; the model takes the total as one length.
- `aiofd_read`'s byte counts and `aiofd_flush` (no engine state).
- In `Sanitize`: a descriptor limit lowered below an inherited descriptor (the close loop
  stops at `getdtablesize()`, so `SanitizedOnSuccess` fails by the loop bound alone); it
  is listed as a hazard. `build_clean_environ` reads the environment twice, but nothing in
  `src/` starts a thread and the sanitizer runs at start-up, so no concurrent `setenv` is
  modelled.
- `NoUseAfterFree` is checked only where it can fail (`aiofd_callback_delete`): under
  `CallbackDeletes = "safe"` it would merely restate that guard.

The queue is not composed with `IndexedList`: `aiofd.c` uses `array.h`, not `list.c`, so
that composition would not be the code.

Next steps, in order:
1. **Error reporting.** Decide on the repeated-`error_fn` question (hazard at `aiofd.c:81`).
   If it is settled, state it as a property.
2. **Lowered descriptor limit.** It would need a violation run of its own.
