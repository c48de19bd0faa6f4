--------------------------- MODULE ProcessDriver ---------------------------
(* praktor_process_driver (process_driver.c): one native process, its three   *)
(* pipes, the bounded capture of what it prints and the handover of what is   *)
(* still in flight to a retainer.  drv is the driver's process_state, lib is  *)
(* the cflow_process library below it (not part of the repository): the child,*)
(* what it has written, and the requests whose buffers the library still      *)
(* holds.  Bytes are counted, their content is abstracted.  A call of the     *)
(* driver makes several library calls whose outcomes are chosen by the        *)
(* library; each operator on s = [d |-> drv, l |-> lib] below returns the set *)
(* of possible results of one such call.                                      *)
EXTENDS Naturals, FiniteSets

CONSTANTS
    MaxOutput,      \* max_output_bytes, shared by both output streams
    InputSize,      \* bytes for stdin
    InputChunk,     \* sizeof(input_buffer)
    ReadSize,       \* sizeof(read_buffer[i])
    MaxWritten,     \* bound: bytes the child writes to each stream
    Modes,          \* whether start() is given a retainer and an emit callback
    Ending,         \* how the library reports the end of a process
    LibraryMayFail  \* library calls and the emit callback may report errors

Reads == {"out", "err"}

ASSUME DriverAssumption ==
    /\ MaxOutput \in Nat \ {0}
    /\ InputSize \in Nat
    /\ InputChunk \in Nat \ {0}
    /\ ReadSize \in Nat \ {0}
    /\ MaxWritten \in [Reads -> Nat]
    /\ Modes \subseteq [retained : BOOLEAN, streamed : BOOLEAN]
    /\ {"EXITED", "TERMINATED"} \subseteq Ending
    /\ Ending \subseteq {"EXITED", "SIGNALED", "TIMED_OUT", "TERMINATED"}
    /\ LibraryMayFail \in BOOLEAN

VARIABLES drv, lib

driverVars == <<drv, lib>>

Requests == Reads \cup {"in"}

\* payload says who owns the process_state: nobody, the driver handle, the
\* retainer that adopted it, or the allocator.  pass is 1 between the two passes
\* of a tick(), when the child may act but no other call of the driver is made.
DriverRecord ==
    [payload : {"none", "driver", "retainer", "freed"}, reserved : BOOLEAN, emit : BOOLEAN,
     closing : BOOLEAN, done : BOOLEAN, failed : BOOLEAN, limited : BOOLEAN, terminal : BOOLEAN,
     pending : SUBSET Requests, eof : SUBSET Reads, inputClosed : BOOLEAN, offset : 0 .. InputSize,
     size : [Reads -> 0 .. MaxOutput], line : [Reads -> 0 .. MaxOutput],
     result : Ending \cup {"none"}, pass : 0 .. 1]

\* closed are the streams no process holds open for writing any more; written
\* and read count the bytes put into and taken out of each pipe.
LibRecord ==
    [active : BOOLEAN, requests : SUBSET Requests, ending : Ending \cup {"none"}, terminated : BOOLEAN,
     closed : SUBSET Reads, written : [Reads -> Nat], read : [Reads -> Nat]]

NoBytes == [i \in Reads |-> 0]

NoDriver ==
    [payload |-> "none", reserved |-> FALSE, emit |-> FALSE, closing |-> FALSE, done |-> FALSE,
     failed |-> FALSE, limited |-> FALSE, terminal |-> FALSE, pending |-> {}, eof |-> {},
     inputClosed |-> FALSE, offset |-> 0, size |-> NoBytes, line |-> NoBytes, result |-> "none",
     pass |-> 0]

NoProcess ==
    [active |-> FALSE, requests |-> {}, ending |-> "none", terminated |-> FALSE,
     closed |-> {}, written |-> NoBytes, read |-> NoBytes]

Smaller(a, b) == IF a < b THEN a ELSE b

\* The results of applying the call Op to each of the states S.
Followed(S, Op(_)) == UNION {Op(s) : s \in S}

-----------------------------------------------------------------------------
Failed(s) == [s EXCEPT !.d.failed = TRUE]

\* The outcome good of a call, or an error of it that the driver records.
OrFailed(good, s) == good \cup (IF LibraryMayFail THEN {Failed(s)} ELSE {})

Accepted(s, i) == [s EXCEPT !.d.pending = @ \cup {i}, !.l.requests = @ \cup {i}]

\* submit_read(): FULL and LEASE_IN_USE leave the read for a later pass.
SubmitRead(s, i) ==
    IF i \in s.d.pending \cup s.d.eof THEN {s} ELSE OrFailed({s, Accepted(s, i)}, s)

\* submit_input(): the next chunk, or stdin is closed.
SubmitInput(s) ==
    IF "in" \in s.d.pending \/ s.d.inputClosed THEN {s}
    ELSE IF ~s.d.terminal /\ s.d.offset < InputSize THEN OrFailed({s, Accepted(s, "in")}, s)
    ELSE OrFailed({s, [s EXCEPT !.d.inputClosed = TRUE]}, s)

\* Free bytes of the capture budget.
Remaining(d) == MaxOutput - d.size["out"] - d.size["err"]

\* emit_bytes(): n bytes, newlines among them or not, reach the line buffer;
\* complete lines go to the callback, which may refuse.  The overflow check of
\* the line buffer is left out: CaptureBounded shows that it never applies.
EmitBytes(s, i, n) ==
    IF ~s.d.emit THEN {s}
    ELSE LET lengths == {s.d.line[i] + j : j \in 0 .. n} \cup 0 .. n
             after == {[s EXCEPT !.d.line[i] = m] : m \in lengths}
         IN after \cup (IF LibraryMayFail THEN {Failed(x) : x \in after} ELSE {})

\* n bytes arrived on stream i: keep what fits, remember if something did not.
Capture(s, i, n) ==
    LET accepted == Smaller(n, Remaining(s.d))
        stored == [s EXCEPT !.d.size[i] = @ + accepted]
    IN {[x EXCEPT !.d.limited = @ \/ accepted # n] : x \in EmitBytes(stored, i, accepted)}

\* The library gives the request i back.
Returned(s, i) == [s EXCEPT !.d.pending = @ \ {i}, !.l.requests = @ \ {i}]

\* A write of stdin came back: progress, or the reader is gone.
InputDone(s) ==
    LET chunk == Smaller(InputSize - s.d.offset, InputChunk) IN
    OrFailed({[s EXCEPT !.d.offset = @ + n] : n \in 1 .. chunk}
                \cup {[s EXCEPT !.d.offset = InputSize]}, s)

\* A read came back: bytes, the end of the stream, or an error.
ReadDone(s, i) ==
    LET unread == s.l.written[i] - s.l.read[i]
        got(n) == [s EXCEPT !.l.read[i] = @ + n]
    IN (UNION {Capture(got(n), i, n) : n \in 1 .. Smaller(unread, ReadSize)})
       \cup {x \in {[s EXCEPT !.d.eof = @ \cup {i}]} : unread = 0 /\ i \in s.l.closed}
       \cup {x \in {Failed(s)} : LibraryMayFail}

\* A late read takes bytes from its pipe like any other; the driver drops them.
LateRead(s, i) ==
    {[s EXCEPT !.l.read[i] = @ + n] : n \in 0 .. Smaller(s.l.written[i] - s.l.read[i], ReadSize)}

\* completion() for the request i.  A late one only gives the buffer back.
Completion(s, i) ==
    LET back == Returned(s, i) IN
    IF s.d.closing THEN IF i = "in" THEN {back} ELSE LateRead(back, i)
    ELSE IF i = "in" THEN InputDone(back) ELSE ReadDone(back, i)

\* One more of the requests completes, or none does.
OneMore(S) == UNION {{x} \cup UNION {Completion(x, i) : i \in x.l.requests} : x \in S}

\* cflow_process_run_ready(): any of the three requests complete, in any order.
RunReady(s) == Followed(OneMore(OneMore(OneMore({s}))), LAMBDA x : OrFailed({x}, x))

\* cflow_process_poll(): EBUSY until the library has noticed the end.
Poll(s) ==
    OrFailed({s} \cup {x \in {[s EXCEPT !.d.terminal = TRUE, !.d.result = s.l.ending]} :
                          s.l.ending # "none"}, s)

\* One pass of the loop of tick().
Pass(s) ==
    Followed(Followed(Followed(Followed(SubmitRead(s, "out"),
         LAMBDA x : SubmitRead(x, "err")), SubmitInput), RunReady), Poll)

\* Mutant: the end of the process ends the capture.
TickDoneAtExit(d) == d.failed \/ d.limited \/ d.terminal

\* What tick() reports as done.
TickDone(d) ==
    \/ d.failed \/ d.limited
    \/ d.terminal /\ d.eof = Reads /\ d.inputClosed /\ d.pending = {}

\* The last, unterminated lines are emitted when the process is done.
Flush(s) ==
    IF ~s.d.done \/ ~s.d.emit \/ s.d.failed THEN {s}
    ELSE LET flushed == [s EXCEPT !.d.line = NoBytes]
         IN {flushed} \cup {x \in {Failed(flushed)} : LibraryMayFail /\ s.d.line # NoBytes}

\* tick() returns after its second pass, or after one that failed or overflowed.
TickResults(s) ==
    LET last(x) == s.d.pass = 1 \/ x.d.failed \/ x.d.limited IN
    Followed(Pass(s), LAMBDA x :
        IF last(x) THEN Flush([x EXCEPT !.d.done = TickDone(x.d), !.d.pass = 0])
        ELSE {[x EXCEPT !.d.pass = 1]})

\* close(): late completions come back, and once nothing is in flight the
\* library object may be destroyed.  The bounded loop may end before that.
CloseResults(s) ==
    LET begun == [s EXCEPT !.d.closing = TRUE, !.d.emit = FALSE]
        killed == [begun EXCEPT !.l.ending = IF @ = "none" THEN "TERMINATED" ELSE @]
        swept == UNION {RunReady(x) : x \in {begun, killed}}
        ended == {x \in swept : x.l.requests = {} /\ x.l.ending # "none"}
    IN IF ~s.l.active THEN {begun}
       ELSE swept \cup {[x EXCEPT !.l.active = FALSE] : x \in ended}

\* start(): the process_state exists whether or not the process was admitted.
StartResults(mode) ==
    LET d == [NoDriver EXCEPT !.payload = "driver", !.reserved = mode.retained,
                          !.emit = mode.streamed]
        l == [NoProcess EXCEPT !.active = TRUE]
        refused == [d EXCEPT !.failed = TRUE, !.done = TRUE]
    IN {[d |-> d, l |-> l]}
       \cup {[d |-> refused, l |-> x] : x \in {y \in {NoProcess, [l EXCEPT !.ending = "EXITED"]} : LibraryMayFail}}

\* Mutant: release() does not ask whether the library is still active.
ReleasedAlways(s) == {[s EXCEPT !.d.payload = "freed", !.d.reserved = FALSE]}

\* release(): handed to the retainer with its requests, or freed; EBUSY (no
\* result) while the process is active and there is no reservation.
Released(s) ==
    IF s.l.active
    THEN {x \in {[s EXCEPT !.d.payload = "retainer"]} : s.d.closing /\ s.d.reserved}
    ELSE {[s EXCEPT !.d.payload = "freed", !.d.reserved = FALSE]}

-----------------------------------------------------------------------------
DriverInit == drv = NoDriver /\ lib = NoProcess

DriverState == [d |-> drv, l |-> lib]

\* The driver call whose possible results are S.
Becomes(S) == \E s \in S : drv' = s.d /\ lib' = s.l

Start(mode) ==
    /\ drv.payload \in {"none", "freed"}
    /\ Becomes(StartResults(mode))

\* The driver handle is live and no tick() is under way.
Idle == drv.payload = "driver" /\ drv.pass = 0

Tick ==
    /\ drv.payload = "driver" /\ ~drv.closing /\ ~drv.done
    /\ Becomes(TickResults(DriverState))

Terminate ==
    /\ Idle /\ ~drv.closing /\ lib.active
    /\ lib' = [lib EXCEPT !.terminated = TRUE]
    /\ UNCHANGED drv

Close ==
    /\ Idle
    /\ Becomes(CloseResults(DriverState))

Release ==
    /\ Idle
    /\ Becomes(Released(DriverState))

\* The child, or a descendant that inherited its pipes, writes or closes.
ChildWrite(i) ==
    /\ lib.active /\ i \notin lib.closed /\ lib.written[i] < MaxWritten[i]
    /\ lib' = [lib EXCEPT !.written[i] = @ + 1]
    /\ UNCHANGED drv

ChildCloses(i) ==
    /\ lib.active /\ i \notin lib.closed
    /\ lib' = [lib EXCEPT !.closed = @ \cup {i}]
    /\ UNCHANGED drv

ChildEnds(e) ==
    /\ lib.active /\ lib.ending = "none"
    /\ e = "TERMINATED" => lib.terminated
    /\ lib' = [lib EXCEPT !.ending = e]
    /\ UNCHANGED drv

\* The retainer drives the adopted process and frees the payload at the end.
Reap ==
    /\ drv.payload = "retainer"
    /\ \E s \in CloseResults(DriverState) :
          /\ lib' = s.l
          /\ drv' = IF s.l.active THEN s.d ELSE [s.d EXCEPT !.payload = "freed", !.reserved = FALSE]

ChildNext ==
    \/ \E i \in Reads : ChildWrite(i) \/ ChildCloses(i)
    \/ \E e \in Ending : ChildEnds(e)

DriverNext ==
    \/ \E mode \in Modes : Start(mode)
    \/ Tick \/ Terminate \/ Close \/ Release \/ Reap
    \/ ChildNext

DriverSpec == DriverInit /\ [][DriverNext]_driverVars

-----------------------------------------------------------------------------
\* The fields of the driver and of the library stay in range.
DriverTypeOK == drv \in DriverRecord /\ lib \in LibRecord

\* Both streams together never exceed max_output_bytes, and a line buffer never
\* holds more than was captured of its stream, so it cannot overflow either.
CaptureBounded ==
    /\ drv.size["out"] + drv.size["err"] <= MaxOutput
    /\ \A i \in Reads : drv.line[i] <= drv.size[i]

\* Bytes taken from a pipe are in the capture, or output_limited tells that
\* some are not, or a late read took them: one that close() found pending on a
\* stream that had not been read to its end.
NothingDropped ==
    \/ drv.limited
    \/ drv.size = lib.read
    \/ drv.closing /\ drv.eof # Reads

\* A process reported done without failure and within the limit has ended, and
\* everything that was ever written to its pipes has been captured, also what
\* arrived after its exit was seen, and close() takes nothing away from that;
\* until close() no byte is lost unseen.
CaptureComplete ==
    /\ NothingDropped
    /\ (drv.done /\ ~drv.failed /\ ~drv.limited) =>
          drv.result # "none" /\ drv.size = lib.written

\* The process_state is freed only when the library holds none of its buffers
\* and can call back no more.
PayloadOutlivesLeases == drv.payload = "freed" => lib.requests = {} /\ ~lib.active

\* Well formed, within its limits and never freed under the library, whatever
\* completes in which order and whenever it is closed and released
\* (process_driver.c).
DriverInv == DriverTypeOK /\ CaptureBounded /\ PayloadOutlivesLeases
=============================================================================
