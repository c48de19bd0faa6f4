------------------------ MODULE ProcessWorker_proofs ------------------------
(* Proofs about the process driver and the worker that owns one, for every    *)
(* limit, chunk size, input, amount of output and way to end: DriverInv and   *)
(* CaptureComplete of ProcessDriver, WorkerInv of ProcessWorker.              *)
(* A call of the driver is a chain of calls of the library, each of which the *)
(* model gives as a set of results; Good is kept by every link of that chain, *)
(* LifeCycle only between two calls of the driver.                            *)
EXTENDS ProcessWorker, TLAPS

-----------------------------------------------------------------------------
(* The driver.                                                                *)

\* The driver's state and the library's below it, between any two calls that
\* one makes of the other.
DriverPair == [d : DriverRecord, l : LibRecord]

\* Byte accounts: what was read is captured or known to be cut, within the
\* limits, unless close() came before the end of a stream; and a stream at its
\* end has been read to its end.
BytesAccounted(s) ==
    /\ s.d.size["out"] + s.d.size["err"] <= MaxOutput
    /\ \A i \in Reads : s.d.line[i] <= s.d.size[i] /\ s.l.read[i] <= s.l.written[i]
    /\ s.d.limited \/ s.d.size = s.l.read \/ (s.d.closing /\ s.d.eof # Reads)
    /\ \A i \in s.d.eof : i \in s.l.closed /\ s.l.read[i] = s.l.written[i]

\* The driver and the library agree on the buffers lent, and an inactive library
\* holds none.
LeasesAgree(s) ==
    /\ s.d.pending = s.l.requests
    /\ ~s.l.active => s.l.requests = {}
    /\ s.d.terminal => s.d.result # "none"

\* Where the process_state is: it works only on an active process, it was done
\* for a reason and freed only under an inactive library.
LifeCycle(s) ==
    /\ s.d.payload = "driver" /\ ~s.d.closing /\ ~s.d.done => s.l.active
    /\ s.d.payload \in {"none", "freed"} => ~s.l.active
    /\ s.d.done /\ ~s.d.failed /\ ~s.d.limited => s.d.terminal /\ s.d.eof = Reads

Good(s) == s \in DriverPair /\ BytesAccounted(s) /\ LeasesAgree(s)

DriverIInv == Good(DriverState) /\ LifeCycle(DriverState)

\* A library call during a tick or a close leaves alone who owns the
\* process_state, and takes back no failure; once closing, it also leaves alone
\* what the driver knows of the process.
Same(x, s) ==
    /\ x.d.payload = s.d.payload /\ x.d.closing = s.d.closing /\ x.d.done = s.d.done
    /\ x.d.pass = s.d.pass /\ x.d.emit = s.d.emit /\ x.d.reserved = s.d.reserved
    /\ x.l.active = s.l.active /\ x.l.ending = s.l.ending /\ x.l.terminated = s.l.terminated
    /\ x.d.result \in {s.d.result, s.l.ending}
    /\ s.d.failed => x.d.failed
    /\ s.d.closing => /\ x.d.limited = s.d.limited /\ x.d.terminal = s.d.terminal
                      /\ x.d.eof = s.d.eof /\ x.d.result = s.d.result

\* The error of a call is recorded and changes nothing else.
LEMMA FailedKeeps == ASSUME NEW s, Good(s) PROVE Good(Failed(s)) /\ Same(Failed(s), s)
<1> USE DEF Good, DriverPair
<1>1. Failed(s) \in DriverPair
  BY DEF Failed, DriverRecord
<1>2. BytesAccounted(Failed(s)) /\ LeasesAgree(Failed(s))
  BY DEF Failed, DriverRecord, BytesAccounted, LeasesAgree
<1>3. Same(Failed(s), s)
  BY DEF Failed, DriverRecord, Same
<1> QED
  BY <1>1, <1>2, <1>3

\* A request that the library accepts is on both accounts.
LEMMA AcceptedKeeps ==
    ASSUME NEW s, Good(s), s.l.active, NEW i \in Requests
    PROVE  Good(Accepted(s, i)) /\ Same(Accepted(s, i), s)
<1> USE DEF Good, DriverPair
<1>1. Accepted(s, i) \in DriverPair
  BY ZenonT(40) DEF Accepted, DriverRecord, LibRecord
<1>2. BytesAccounted(Accepted(s, i)) /\ LeasesAgree(Accepted(s, i))
  BY DEF Accepted, DriverRecord, LibRecord, BytesAccounted, LeasesAgree
<1>3. Same(Accepted(s, i), s)
  BY DEF Accepted, DriverRecord, LibRecord, Same
<1> QED
  BY <1>1, <1>2, <1>3

\* A request comes back from both accounts.
LEMMA ReturnedKeeps ==
    ASSUME NEW s, Good(s), NEW i \in Requests
    PROVE  Good(Returned(s, i)) /\ Same(Returned(s, i), s)
<1> USE DEF Good, DriverPair
<1>1. Returned(s, i) \in DriverPair
  BY DEF Returned, DriverRecord, LibRecord
<1>2. BytesAccounted(Returned(s, i)) /\ LeasesAgree(Returned(s, i))
  BY DEF Returned, DriverRecord, LibRecord, BytesAccounted, LeasesAgree
<1>3. Same(Returned(s, i), s)
  BY DEF Returned, DriverRecord, LibRecord, Same
<1> QED
  BY <1>1, <1>2, <1>3

\* A read is submitted once per stream at a time, or fails.
LEMMA SubmitReadKeeps ==
    ASSUME NEW s, Good(s), s.l.active, NEW i \in Reads, NEW x \in SubmitRead(s, i)
    PROVE  Good(x) /\ Same(x, s)
<1>1. Same(s, s)
  BY DEF Same
<1> QED
  BY <1>1, FailedKeeps, AcceptedKeeps DEF SubmitRead, OrFailed, Requests

\* Input is written, or its end closed, or the submission fails.
LEMMA SubmitInputKeeps ==
    ASSUME NEW s, Good(s), s.l.active, NEW x \in SubmitInput(s)
    PROVE  Good(x) /\ Same(x, s)
<1> DEFINE closed == [s EXCEPT !.d.inputClosed = TRUE]
<1>1. Same(s, s)
  BY DEF Same
<1>2. Good(closed)
  BY DEF Good, DriverPair, DriverRecord, BytesAccounted, LeasesAgree
<1>3. Same(closed, s)
  BY DEF Good, DriverPair, DriverRecord, Same
<1> QED
  BY <1>1, <1>2, <1>3, FailedKeeps, AcceptedKeeps DEF SubmitInput, OrFailed, Requests

\* n bytes that fit are captured and reach the line buffer: the accounts stay
\* exact, whatever newlines the bytes contain.
LEMMA CaptureKeeps ==
    ASSUME NEW s, Good(s), ~s.d.closing, NEW i \in Reads,
           NEW n \in 1 .. s.l.written[i] - s.l.read[i],
           NEW x \in Capture([s EXCEPT !.l.read[i] = @ + n], i, n)
    PROVE  Good(x) /\ Same(x, s)
<1> DEFINE accepted == Smaller(n, Remaining(s.d))
           got == [s EXCEPT !.l.read[i] = @ + n]
           stored == [got EXCEPT !.d.size[i] = @ + accepted]
<1>1. /\ s \in DriverPair /\ n \in Nat \ {0} /\ s.l.read[i] + n <= s.l.written[i]
      /\ s.d.size \in [Reads -> 0 .. MaxOutput] /\ s.d.line \in [Reads -> 0 .. MaxOutput]
      /\ s.l.read \in [Reads -> Nat] /\ s.l.written \in [Reads -> Nat]
  BY DEF Good, DriverPair, DriverRecord, LibRecord
<1>2. accepted \in 0 .. n /\ accepted <= MaxOutput - s.d.size["out"] - s.d.size["err"]
  BY <1>1, DriverAssumption DEF Smaller, Remaining, Good, BytesAccounted, Reads
<1> HIDE DEF accepted
<1>3. stored \in DriverPair
  <2>1. s.l.read[i] + n \in Nat /\ s.d.size[i] + accepted \in 0 .. MaxOutput
    BY <1>1, <1>2, DriverAssumption DEF Reads
  <2> QED
    BY <1>1, <2>1 DEF DriverPair, DriverRecord, LibRecord
<1>4. /\ stored.d = [s.d EXCEPT !.size = [s.d.size EXCEPT ![i] = s.d.size[i] + accepted]]
      /\ stored.l = [s.l EXCEPT !.read = [s.l.read EXCEPT ![i] = s.l.read[i] + n]]
  BY <1>1 DEF DriverPair, DriverRecord, LibRecord
<1>5. PICK y \in EmitBytes(stored, i, accepted) : x = [y EXCEPT !.d.limited = @ \/ accepted # n]
  BY DEF Capture, accepted
<1> HIDE DEF stored
<1>6. \E m \in 0 .. s.d.size[i] + accepted, failed \in BOOLEAN :
          /\ y.d = [stored.d EXCEPT !.line = [stored.d.line EXCEPT ![i] = m], !.failed = failed]
          /\ y.l = stored.l /\ y \in DriverPair
          /\ s.d.failed => failed
  <2>1. /\ stored.d.line = s.d.line /\ stored.d.failed = s.d.failed /\ s.d.failed \in BOOLEAN
        /\ s.d.line[i] \in Nat /\ s.d.line[i] <= s.d.size[i] /\ s.d.size[i] \in Nat
        /\ s.d.size[i] + accepted \in 0 .. MaxOutput
    BY <1>1, <1>2, <1>4, DriverAssumption DEF Good, BytesAccounted, DriverPair, DriverRecord, Reads
  <2>2. CASE y = stored
    <3>1. stored.d = [stored.d EXCEPT !.line = [stored.d.line EXCEPT ![i] = s.d.line[i]], !.failed = s.d.failed]
      <4>1. s.d.line = [s.d.line EXCEPT ![i] = s.d.line[i]]
        BY <1>1
      <4>2. stored.d = [stored.d EXCEPT !.line = s.d.line, !.failed = s.d.failed]
        BY <1>3, <2>1 DEF DriverPair, DriverRecord
      <4> QED
        BY <2>1, <4>1, <4>2
    <3>2. s.d.line[i] \in 0 .. s.d.size[i] + accepted
      BY <1>2, <2>1
    <3> QED
      BY <1>3, <2>1, <2>2, <3>1, <3>2
  <2>3. ASSUME NEW m \in {s.d.line[i] + j : j \in 0 .. accepted} \cup 0 .. accepted,
               y \in {[stored EXCEPT !.d.line[i] = m], Failed([stored EXCEPT !.d.line[i] = m])}
        PROVE  \E failed \in BOOLEAN :
                  /\ y.d = [stored.d EXCEPT !.line = [stored.d.line EXCEPT ![i] = m], !.failed = failed]
                  /\ y.l = stored.l /\ y \in DriverPair /\ m \in 0 .. s.d.size[i] + accepted
                  /\ s.d.failed => failed
    <3>1. m \in 0 .. s.d.size[i] + accepted /\ m \in 0 .. MaxOutput
      BY <1>2, <2>1, <2>3, DriverAssumption
    <3>2. CASE y = [stored EXCEPT !.d.line[i] = m]
      <4>1. y.d = [stored.d EXCEPT !.line = [stored.d.line EXCEPT ![i] = m], !.failed = s.d.failed]
        BY <1>3, <2>1, <3>2 DEF DriverPair, DriverRecord
      <4>2. y.l = stored.l /\ y \in DriverPair
        BY <1>3, <3>1, <3>2 DEF DriverPair, DriverRecord
      <4> QED
        BY <2>1, <3>1, <4>1, <4>2
    <3>3. CASE y = Failed([stored EXCEPT !.d.line[i] = m])
      <4>1. y.d = [stored.d EXCEPT !.line = [stored.d.line EXCEPT ![i] = m], !.failed = TRUE]
        BY <1>3, <2>1, <3>3 DEF DriverPair, DriverRecord, Failed
      <4>2. y.l = stored.l /\ y \in DriverPair
        BY <1>3, <3>1, <3>3 DEF DriverPair, DriverRecord, Failed
      <4> QED
        BY <3>1, <4>1, <4>2
    <3> QED
      BY <2>3, <3>2, <3>3
  <2>4. ASSUME y # stored
        PROVE  \E m \in {s.d.line[i] + j : j \in 0 .. accepted} \cup 0 .. accepted :
                  y \in {[stored EXCEPT !.d.line[i] = m], Failed([stored EXCEPT !.d.line[i] = m])}
    <3> DEFINE lengths == {stored.d.line[i] + j : j \in 0 .. accepted} \cup 0 .. accepted
               after == {[stored EXCEPT !.d.line[i] = m] : m \in lengths}
    <3>1. y \in after \/ \E z \in after : y = Failed(z)
      BY <1>5, <2>4 DEF EmitBytes
    <3>2. PICK m \in lengths : y \in {[stored EXCEPT !.d.line[i] = m], Failed([stored EXCEPT !.d.line[i] = m])}
      BY <3>1
    <3> QED
      BY <2>1, <3>2
  <2> QED
    BY <2>2, <2>3, <2>4
<1>7. PICK m \in 0 .. s.d.size[i] + accepted, failed \in BOOLEAN :
          /\ y.d = [stored.d EXCEPT !.line = [stored.d.line EXCEPT ![i] = m], !.failed = failed]
          /\ y.l = stored.l /\ y \in DriverPair
          /\ s.d.failed => failed
  BY <1>6
<1>8. /\ x.d = [y.d EXCEPT !.limited = y.d.limited \/ accepted # n] /\ x.l = y.l
      /\ x \in DriverPair
  BY <1>5, <1>7 DEF DriverPair, DriverRecord
<1>9. /\ x.d.size = [s.d.size EXCEPT ![i] = s.d.size[i] + accepted]
      /\ x.d.line = [s.d.line EXCEPT ![i] = m]
      /\ x.d.limited = (s.d.limited \/ accepted # n)
      /\ x.l.read = [s.l.read EXCEPT ![i] = s.l.read[i] + n]
      /\ x.l.written = s.l.written /\ x.l.closed = s.l.closed /\ x.d.eof = s.d.eof
  BY <1>1, <1>4, <1>7, <1>8 DEF DriverPair, DriverRecord, LibRecord
<1>10. BytesAccounted(x)
  <2>1. x.d.size["out"] + x.d.size["err"] <= MaxOutput
    BY <1>1, <1>2, <1>9, DriverAssumption DEF Reads
  <2>2. \A j \in Reads : x.d.line[j] <= x.d.size[j] /\ x.l.read[j] <= x.l.written[j]
    BY <1>1, <1>2, <1>7, <1>9 DEF Good, BytesAccounted
  <2>3. x.d.limited \/ x.d.size = x.l.read \/ (x.d.closing /\ x.d.eof # Reads)
    BY <1>1, <1>2, <1>9 DEF Good, BytesAccounted
  <2>4. \A j \in x.d.eof : j \in x.l.closed /\ x.l.read[j] = x.l.written[j]
    BY <1>1, <1>9 DEF Good, BytesAccounted
  <2> QED
    BY <2>1, <2>2, <2>3, <2>4 DEF BytesAccounted
<1>11. LeasesAgree(x) /\ Same(x, s)
  BY <1>1, <1>4, <1>7, <1>8 DEF DriverPair, DriverRecord, LibRecord, Good, LeasesAgree, Same
<1> QED
  BY <1>8, <1>10, <1>11 DEF Good

\* A write that comes back only moves the offset, within the input.
LEMMA InputDoneKeeps ==
    ASSUME NEW s, Good(s), ~s.d.closing, NEW x \in InputDone(s)
    PROVE  Good(x) /\ Same(x, s)
<1>1. s \in DriverPair /\ s.d.offset \in 0 .. InputSize
  BY DEF Good, DriverPair, DriverRecord
<1>2. ASSUME NEW m \in 0 .. InputSize
      PROVE  Good([s EXCEPT !.d.offset = m]) /\ Same([s EXCEPT !.d.offset = m], s)
  <2>1. Good([s EXCEPT !.d.offset = m])
    BY DEF Good, DriverPair, DriverRecord, BytesAccounted, LeasesAgree
  <2>2. Same([s EXCEPT !.d.offset = m], s)
    BY <1>1 DEF DriverPair, DriverRecord, Same
  <2> QED
    BY <2>1, <2>2
<1>3. \A n \in 1 .. Smaller(InputSize - s.d.offset, InputChunk) : s.d.offset + n \in 0 .. InputSize
  BY <1>1, DriverAssumption DEF Smaller
<1>4. InputSize \in 0 .. InputSize
  BY DriverAssumption
<1> QED
  BY <1>2, <1>3, <1>4, FailedKeeps DEF InputDone, OrFailed

\* A read that comes back with bytes, the end of the stream or an error.
LEMMA ReadDoneKeeps ==
    ASSUME NEW s, Good(s), ~s.d.closing, NEW i \in Reads, NEW x \in ReadDone(s, i)
    PROVE  Good(x) /\ Same(x, s)
<1> DEFINE unread == s.l.written[i] - s.l.read[i]
           Got(n) == [s EXCEPT !.l.read[i] = @ + n]
           captured == UNION {Capture(Got(n), i, n) : n \in 1 .. Smaller(unread, ReadSize)}
           ended == {y \in {[s EXCEPT !.d.eof = @ \cup {i}]} : unread = 0 /\ i \in s.l.closed}
<1>1. /\ s \in DriverPair /\ s.l.written[i] \in Nat /\ s.l.read[i] \in Nat /\ s.l.read[i] <= s.l.written[i]
  BY DEF Good, DriverPair, LibRecord, BytesAccounted
<1>2. x \in captured \/ x \in ended \/ x = Failed(s)
  <2>1. ReadDone(s, i) = captured \cup ended \cup {y \in {Failed(s)} : LibraryMayFail}
    BY DEF ReadDone
  <2> HIDE DEF captured, ended
  <2> QED
    BY <2>1
<1>3. CASE x \in captured
  <2>1. 1 .. Smaller(unread, ReadSize) \subseteq 1 .. unread
    BY <1>1, DriverAssumption DEF Smaller
  <2> HIDE DEF Got, unread
  <2>2. PICK n \in 1 .. Smaller(unread, ReadSize) : x \in Capture(Got(n), i, n)
    BY <1>3
  <2> QED
    BY <2>1, <2>2, CaptureKeeps DEF Got, unread
<1>4. CASE x \in ended
  <2>1. s.l.read[i] = s.l.written[i] /\ i \in s.l.closed /\ x = [s EXCEPT !.d.eof = @ \cup {i}]
    BY <1>1, <1>4
  <2>2. Good(x)
    BY <1>1, <2>1 DEF Good, DriverPair, DriverRecord, BytesAccounted, LeasesAgree
  <2>3. Same(x, s)
    BY <1>1, <2>1 DEF DriverPair, DriverRecord, Same
  <2> QED
    BY <2>2, <2>3
<1>5. CASE x = Failed(s)
  BY <1>5, FailedKeeps
<1> HIDE DEF captured, ended
<1> QED
  BY <1>2, <1>3, <1>4, <1>5

\* A late read moves only the library's account; a stream at its end has no
\* byte left for it.
LEMMA LateReadKeeps ==
    ASSUME NEW s, Good(s), s.d.closing, NEW i \in Reads, NEW x \in LateRead(s, i)
    PROVE  Good(x) /\ Same(x, s)
<1>1. /\ s \in DriverPair /\ s.l.written \in [Reads -> Nat] /\ s.l.read \in [Reads -> Nat]
      /\ s.l.read[i] <= s.l.written[i] /\ s.d.size \in [Reads -> 0 .. MaxOutput]
  BY DEF Good, DriverPair, DriverRecord, LibRecord, BytesAccounted
<1>2. PICK n \in 0 .. Smaller(s.l.written[i] - s.l.read[i], ReadSize) : x = [s EXCEPT !.l.read[i] = @ + n]
  BY DEF LateRead
<1>3. n \in Nat /\ s.l.read[i] + n <= s.l.written[i]
  BY <1>1, <1>2, DriverAssumption DEF Smaller
<1>4. /\ x.d = s.d /\ x.l = [s.l EXCEPT !.read = [s.l.read EXCEPT ![i] = s.l.read[i] + n]]
      /\ x \in DriverPair
  <2>1. s.l.read[i] + n \in Nat
    BY <1>1, <1>3
  <2>2. x.d = s.d /\ x.l = [s.l EXCEPT !.read = [s.l.read EXCEPT ![i] = s.l.read[i] + n]]
    BY <1>1, <1>2 DEF DriverPair, LibRecord
  <2>3. x.l \in LibRecord
    <3>1. \A f \in [Reads -> Nat] : [s.l EXCEPT !.read = f] \in LibRecord
      BY <1>1 DEF DriverPair, LibRecord
    <3>2. [s.l.read EXCEPT ![i] = s.l.read[i] + n] \in [Reads -> Nat]
      BY <1>1, <2>1
    <3> QED
      BY <2>2, <3>1, <3>2
  <2>4. x = [s EXCEPT !.l = x.l]
    BY <1>1, <1>2 DEF DriverPair
  <2> QED
    BY <1>1, <2>2, <2>3, <2>4 DEF DriverPair
<1>5. /\ x.l.read = [s.l.read EXCEPT ![i] = s.l.read[i] + n] /\ x.l.written = s.l.written
      /\ x.l.closed = s.l.closed /\ x.l.requests = s.l.requests /\ x.l.active = s.l.active
      /\ x.l.ending = s.l.ending /\ x.l.terminated = s.l.terminated
  BY <1>1, <1>4 DEF DriverPair, LibRecord
<1>6. BytesAccounted(x)
  <2>1. i \in s.d.eof => x.l.read = s.l.read
    BY <1>1, <1>3, <1>5 DEF Good, BytesAccounted
  <2>2. \A j \in Reads : x.l.read[j] <= x.l.written[j]
    BY <1>1, <1>3, <1>5 DEF Good, BytesAccounted
  <2>3. x.d.limited \/ x.d.size = x.l.read \/ (x.d.closing /\ x.d.eof # Reads)
    BY <1>4, <2>1 DEF Good, BytesAccounted
  <2>4. \A j \in x.d.eof : j \in x.l.closed /\ x.l.read[j] = x.l.written[j]
    BY <1>1, <1>4, <1>5, <2>1 DEF Good, BytesAccounted, DriverPair, DriverRecord
  <2> QED
    BY <1>4, <2>2, <2>3, <2>4 DEF Good, BytesAccounted
<1>7. LeasesAgree(x)
  BY <1>4, <1>5 DEF Good, LeasesAgree
<1>8. Same(x, s)
  BY <1>4, <1>5 DEF Same
<1> QED
  BY <1>4, <1>6, <1>7, <1>8 DEF Good

\* completion() on any request, in time or late.
LEMMA CompletionKeeps ==
    ASSUME NEW s, Good(s), NEW i \in Requests, NEW x \in Completion(s, i)
    PROVE  Good(x) /\ Same(x, s)
<1> DEFINE back == Returned(s, i)
<1>1. Good(back) /\ Same(back, s)
  BY ReturnedKeeps
<1>2. CASE s.d.closing
  <2>1. CASE i = "in"
    BY <1>1, <1>2, <2>1 DEF Completion
  <2>2. CASE i # "in"
    <3>1. x \in LateRead(back, i) /\ back.d.closing /\ i \in Reads
      BY <1>1, <1>2, <2>2 DEF Completion, Same, Requests
    <3>2. Good(x) /\ Same(x, back)
      BY <1>1, <3>1, LateReadKeeps
    <3> QED
      BY <1>1, <1>2, <3>2 DEF Same
  <2> QED
    BY <2>1, <2>2
<1>3. CASE ~s.d.closing /\ i = "in"
  <2>1. x \in InputDone(back) /\ ~back.d.closing
    BY <1>1, <1>3 DEF Completion, Same
  <2>2. Good(x) /\ Same(x, back)
    BY <1>1, <2>1, InputDoneKeeps
  <2> QED
    BY <1>1, <1>3, <2>2 DEF Same
<1>4. CASE ~s.d.closing /\ i # "in"
  <2>1. x \in ReadDone(back, i) /\ ~back.d.closing /\ i \in Reads
    BY <1>1, <1>4 DEF Completion, Same, Requests
  <2>2. Good(x) /\ Same(x, back)
    BY <1>1, <2>1, ReadDoneKeeps
  <2> QED
    BY <1>1, <1>4, <2>2 DEF Same
<1> QED
  BY <1>2, <1>3, <1>4

\* Same is transitive: a call that makes several calls of the library keeps what
\* each of them keeps.
LEMMA SameTransitive == ASSUME NEW x, NEW y, NEW z, Same(x, y), Same(y, z) PROVE Same(x, z)
BY DEF Same

\* One more completion, from any of the states reached so far.
LEMMA OneMoreKeeps ==
    ASSUME NEW s, NEW S, \A x \in S : Good(x) /\ Same(x, s)
    PROVE  \A x \in OneMore(S) : Good(x) /\ Same(x, s)
<1> TAKE x \in OneMore(S)
<1>1. PICK y \in S : x \in {y} \cup UNION {Completion(y, i) : i \in y.l.requests}
  BY DEF OneMore
<1>2. Good(y) /\ Same(y, s) /\ y.l.requests \subseteq Requests
  BY <1>1 DEF Good, DriverPair, LibRecord
<1>3. CASE x = y
  BY <1>2, <1>3
<1>4. ASSUME NEW i \in y.l.requests, x \in Completion(y, i) PROVE Good(x) /\ Same(x, s)
  <2>1. Good(x) /\ Same(x, y)
    BY <1>2, <1>4, CompletionKeeps
  <2> QED
    BY <1>2, <2>1, SameTransitive
<1> QED
  BY <1>1, <1>3, <1>4

\* cflow_process_run_ready(): up to three completions in any order.
LEMMA RunReadyKeeps ==
    ASSUME NEW s, Good(s), NEW x \in RunReady(s)
    PROVE  Good(x) /\ Same(x, s)
<1>1. \A y \in {s} : Good(y) /\ Same(y, s)
  BY DEF Same
<1>2. \A y \in OneMore({s}) : Good(y) /\ Same(y, s)
  BY <1>1, OneMoreKeeps
<1>3. \A y \in OneMore(OneMore({s})) : Good(y) /\ Same(y, s)
  BY <1>2, OneMoreKeeps
<1>4. \A y \in OneMore(OneMore(OneMore({s}))) : Good(y) /\ Same(y, s)
  BY <1>3, OneMoreKeeps
<1>5. PICK y \in OneMore(OneMore(OneMore({s}))) : x \in OrFailed({y}, y)
  BY DEF RunReady, Followed
<1>6. x = y \/ x = Failed(y)
  BY <1>5 DEF OrFailed
<1> QED
  BY <1>4, <1>5, <1>6, FailedKeeps, SameTransitive

\* cflow_process_poll() notes the end of the process together with its result.
LEMMA PollKeeps ==
    ASSUME NEW s, Good(s), ~s.d.closing, NEW x \in Poll(s)
    PROVE  Good(x) /\ Same(x, s)
<1> DEFINE ended == [s EXCEPT !.d.terminal = TRUE, !.d.result = s.l.ending]
<1>1. s \in DriverPair /\ Same(s, s)
  BY DEF Good, Same
<1>2. ASSUME s.l.ending # "none" PROVE Good(ended) /\ Same(ended, s)
  <2>1. ended \in DriverPair
    BY <1>1 DEF DriverPair, DriverRecord, LibRecord
  <2>2. BytesAccounted(ended) /\ LeasesAgree(ended)
    BY <1>1, <1>2 DEF DriverPair, DriverRecord, LibRecord, Good, BytesAccounted, LeasesAgree
  <2>3. Same(ended, s)
    BY <1>1 DEF DriverPair, DriverRecord, LibRecord, Same
  <2> QED
    BY <2>1, <2>2, <2>3 DEF Good
<1>3. x = s \/ (x = ended /\ s.l.ending # "none") \/ x = Failed(s)
  BY DEF Poll, OrFailed
<1> QED
  BY <1>1, <1>2, <1>3, FailedKeeps

\* One pass of the loop of tick(), on a process that is active.
LEMMA PassKeeps ==
    ASSUME NEW s, Good(s), s.l.active, ~s.d.closing, NEW x \in Pass(s)
    PROVE  Good(x) /\ Same(x, s)
<1> DEFINE A == SubmitRead(s, "out")
           B == Followed(A, LAMBDA y : SubmitRead(y, "err"))
           C == Followed(B, SubmitInput)
           D == Followed(C, RunReady)
           Kept(y) == Good(y) /\ Same(y, s)
<1>1. \A y : Kept(y) => y.l.active /\ ~y.d.closing
  BY DEF Same
<1>2. \A y \in A : Kept(y)
  BY SubmitReadKeeps DEF Reads
<1>3. \A z \in B : Kept(z)
  <2> TAKE z \in B
  <2>1. PICK y \in A : z \in SubmitRead(y, "err")
    BY DEF Followed
  <2> QED
    BY <1>1, <1>2, <2>1, SubmitReadKeeps, SameTransitive DEF Reads
<1>4. \A z \in C : Kept(z)
  <2> TAKE z \in C
  <2> HIDE DEF B
  <2>1. PICK y \in B : z \in SubmitInput(y)
    BY DEF Followed
  <2> QED
    BY <1>1, <1>3, <2>1, SubmitInputKeeps, SameTransitive
<1>5. \A z \in D : Kept(z)
  <2> TAKE z \in D
  <2> HIDE DEF C
  <2>1. PICK y \in C : z \in RunReady(y)
    BY DEF Followed
  <2> QED
    BY <1>4, <2>1, RunReadyKeeps, SameTransitive
<1>6. PICK y \in D : x \in Poll(y)
  BY DEF Pass, Followed
<1> HIDE DEF D
<1> QED
  BY <1>1, <1>5, <1>6, PollKeeps, SameTransitive

\* tick(): what it reports as done has ended and has been read to the end.
LEMMA TickKeeps ==
    ASSUME NEW s, Good(s), s.l.active, s.d.payload = "driver", ~s.d.closing, ~s.d.done,
           NEW x \in TickResults(s)
    PROVE  /\ Good(x) /\ LifeCycle(x) /\ x.l.active /\ x.d.payload = "driver" /\ ~x.d.closing
           /\ x.l.ending = s.l.ending /\ x.l.terminated = s.l.terminated
           /\ x.d.result \in {s.d.result, s.l.ending}
           /\ x.d.pass = 1 => ~x.d.done /\ ~x.d.failed
<1> DEFINE Ok(w) == /\ Good(w) /\ LifeCycle(w) /\ w.l.active /\ w.d.payload = "driver" /\ ~w.d.closing
                    /\ w.l.ending = s.l.ending /\ w.l.terminated = s.l.terminated
                    /\ w.d.result \in {s.d.result, s.l.ending}
<1>1. PICK y \in Pass(s) :
         x \in IF s.d.pass = 1 \/ y.d.failed \/ y.d.limited
               THEN Flush([y EXCEPT !.d.done = TickDone(y.d), !.d.pass = 0])
               ELSE {[y EXCEPT !.d.pass = 1]}
  BY DEF TickResults, Followed
<1>2. /\ Good(y) /\ y \in DriverPair /\ y.l.active /\ y.d.payload = "driver" /\ ~y.d.closing
      /\ y.d.done = s.d.done /\ y.l.ending = s.l.ending /\ y.l.terminated = s.l.terminated
      /\ y.d.result \in {s.d.result, s.l.ending}
  BY <1>1, PassKeeps DEF Same, Good
<1>3. CASE x = [y EXCEPT !.d.pass = 1] /\ ~y.d.failed
  <2>1. Good(x)
    BY <1>2, <1>3 DEF Good, DriverPair, DriverRecord, BytesAccounted, LeasesAgree
  <2>2. LifeCycle(x) /\ x.l = y.l /\ x.d.payload = "driver" /\ ~x.d.closing
    BY <1>2, <1>3 DEF DriverPair, DriverRecord, LifeCycle
  <2>3. x.d.result = y.d.result /\ ~x.d.done /\ ~x.d.failed
    BY <1>2, <1>3 DEF DriverPair, DriverRecord
  <2> QED
    BY <1>2, <2>1, <2>2, <2>3
<1> DEFINE z == [y EXCEPT !.d.done = TickDone(y.d), !.d.pass = 0]
           flushed == [z EXCEPT !.d.line = NoBytes]
<1>4. Ok(z) /\ z.d.pass = 0
  <2>1. TickDone(y.d) \in BOOLEAN
    BY <1>2 DEF TickDone, DriverPair, DriverRecord
  <2>2. z.d = [y.d EXCEPT !.done = TickDone(y.d), !.pass = 0] /\ z.l = y.l /\ z \in DriverPair
    <3>1. \A b \in BOOLEAN, n \in 0 .. 1 : [y EXCEPT !.d.done = b, !.d.pass = n] \in DriverPair
      BY <1>2 DEF DriverPair, DriverRecord
    <3>2. z.d = [y.d EXCEPT !.done = TickDone(y.d), !.pass = 0] /\ z.l = y.l
      BY <1>2 DEF DriverPair, DriverRecord
    <3>3. 0 \in 0 .. 1
      OBVIOUS
    <3> QED
      BY <2>1, <3>1, <3>2, <3>3
  <2>3. /\ z.d.size = y.d.size /\ z.d.line = y.d.line /\ z.d.limited = y.d.limited /\ z.d.eof = y.d.eof
        /\ z.d.pending = y.d.pending /\ z.d.terminal = y.d.terminal /\ z.d.result = y.d.result
        /\ z.d.payload = y.d.payload /\ z.d.closing = y.d.closing /\ z.d.pass = 0
        /\ z.d.failed = y.d.failed /\ z.d.done = TickDone(y.d)
    BY <1>2, <2>2 DEF DriverPair, DriverRecord
  <2>4. BytesAccounted(z) /\ LeasesAgree(z)
    BY <1>2, <2>2, <2>3 DEF Good, BytesAccounted, LeasesAgree
  <2>5. LifeCycle(z)
    BY <1>2, <2>2, <2>3 DEF LifeCycle, TickDone
  <2> QED
    BY <1>2, <2>2, <2>3, <2>4, <2>5 DEF Good
<1>5. ASSUME x \in Flush(z) PROVE Ok(x) /\ x.d.pass = 0
  <2> HIDE DEF z
  <2>1. z \in DriverPair
    BY <1>4 DEF Good
  <2>2. NoBytes \in [Reads -> 0 .. MaxOutput] /\ \A i \in Reads : NoBytes[i] = 0
    BY DriverAssumption DEF NoBytes
  <2>3. Ok(flushed) /\ flushed.d.pass = 0
    <3>1. flushed.d = [z.d EXCEPT !.line = NoBytes] /\ flushed.l = z.l /\ flushed \in DriverPair
      BY <2>1, <2>2 DEF DriverPair, DriverRecord
    <3>2. \A i \in Reads : z.d.size[i] \in Nat
      BY <2>1 DEF DriverPair, DriverRecord
    <3>3. BytesAccounted(flushed)
      BY <1>4, <2>1, <2>2, <3>1, <3>2 DEF DriverPair, DriverRecord, Good, BytesAccounted
    <3>4. /\ LeasesAgree(flushed) /\ LifeCycle(flushed) /\ flushed.d.payload = "driver" /\ ~flushed.d.closing
          /\ flushed.d.result = z.d.result /\ flushed.d.pass = 0
      BY <1>4, <2>1, <3>1 DEF DriverPair, DriverRecord, Good, LeasesAgree, LifeCycle
    <3> QED
      BY <1>4, <3>1, <3>3, <3>4 DEF Good
  <2> HIDE DEF flushed
  <2>4. Good(Failed(flushed)) /\ Same(Failed(flushed), flushed)
    BY <2>3, FailedKeeps
  <2>5. LifeCycle(Failed(flushed)) /\ Failed(flushed).d.result = flushed.d.result
    BY <2>3 DEF Failed, Good, DriverPair, DriverRecord, LifeCycle
  <2>6. Ok(Failed(flushed)) /\ Failed(flushed).d.pass = 0
    BY <2>3, <2>4, <2>5 DEF Same
  <2>7. x = z \/ x = flushed \/ x = Failed(flushed)
    BY <1>5 DEF Flush, flushed
  <2> QED
    BY <1>4, <2>3, <2>6, <2>7
<1> QED
  BY <1>1, <1>3, <1>5

\* close(): what comes back late is only given back, and the library is left
\* when it holds nothing.
LEMMA CloseKeeps ==
    ASSUME NEW s, Good(s), LifeCycle(s), s.d.payload \in {"driver", "retainer"},
           NEW x \in CloseResults(s)
    PROVE  /\ Good(x) /\ LifeCycle(x)
           /\ x.d.payload = s.d.payload /\ x.d.closing /\ x.d.reserved = s.d.reserved
           /\ x.d.done = s.d.done /\ x.d.result = s.d.result /\ x.l.terminated = s.l.terminated
<1> DEFINE begun == [s EXCEPT !.d.closing = TRUE, !.d.emit = FALSE]
           killed == [begun EXCEPT !.l.ending = IF @ = "none" THEN "TERMINATED" ELSE @]
           Ok(y) == /\ Good(y) /\ LifeCycle(y)
                    /\ y.d.payload = s.d.payload /\ y.d.closing /\ y.d.reserved = s.d.reserved
                    /\ y.d.done = s.d.done /\ y.d.result = s.d.result /\ y.l.terminated = s.l.terminated
<1>1. Ok(begun)
  <2>1. s \in DriverPair
    BY DEF Good
  <2>2. begun.d = [s.d EXCEPT !.closing = TRUE, !.emit = FALSE] /\ begun.l = s.l /\ begun \in DriverPair
    BY <2>1 DEF DriverPair, DriverRecord
  <2>3. BytesAccounted(begun) /\ LeasesAgree(begun)
    BY <2>1, <2>2, ZenonT(40) DEF Good, DriverPair, DriverRecord, BytesAccounted, LeasesAgree
  <2>4. LifeCycle(begun) /\ begun.d.payload = s.d.payload /\ begun.d.closing /\ begun.d.reserved = s.d.reserved
        /\ begun.d.done = s.d.done /\ begun.d.result = s.d.result
    BY <2>1, <2>2 DEF DriverPair, DriverRecord, LifeCycle
  <2> QED
    BY <2>2, <2>3, <2>4 DEF Good
<1> HIDE DEF begun
<1>2. Ok(killed)
  <2>1. begun \in DriverPair
    BY <1>1 DEF Good
  <2>2. begun.l.ending \in Ending \cup {"none"} /\ "TERMINATED" \in Ending
    BY <2>1, DriverAssumption DEF DriverPair, LibRecord
  <2>3. PICK e \in Ending \cup {"none"} : killed = [begun EXCEPT !.l.ending = e]
    BY <2>2
  <2>4. killed.d = begun.d /\ killed.l = [begun.l EXCEPT !.ending = e] /\ killed \in DriverPair
    BY <2>1, <2>3 DEF DriverPair, LibRecord
  <2>5. BytesAccounted(killed) /\ LeasesAgree(killed)
    BY <1>1, <2>1, <2>4 DEF Good, DriverPair, LibRecord, BytesAccounted, LeasesAgree
  <2>6. LifeCycle(killed) /\ killed.l.terminated = begun.l.terminated
    BY <1>1, <2>1, <2>4 DEF DriverPair, LibRecord, LifeCycle
  <2> QED
    BY <1>1, <2>4, <2>5, <2>6 DEF Good
<1> HIDE DEF killed
<1>3. ASSUME NEW b \in {begun, killed}, NEW y \in RunReady(b) PROVE Ok(y)
  <2>1. Good(y) /\ Same(y, b)
    BY <1>1, <1>2, <1>3, RunReadyKeeps
  <2> QED
    BY <1>1, <1>2, <2>1 DEF Same, LifeCycle
<1>4. ASSUME NEW y, Ok(y), y.l.requests = {} PROVE Ok([y EXCEPT !.l.active = FALSE])
  <2> DEFINE left == [y EXCEPT !.l.active = FALSE]
  <2>1. y \in DriverPair
    BY <1>4 DEF Good
  <2>2. left.d = y.d /\ left.l = [y.l EXCEPT !.active = FALSE] /\ left \in DriverPair
    BY <2>1 DEF DriverPair, LibRecord
  <2>3. BytesAccounted(left) /\ LeasesAgree(left) /\ LifeCycle(left) /\ left.l.terminated = y.l.terminated
    BY <1>4, <2>1, <2>2 DEF Good, DriverPair, LibRecord, BytesAccounted, LeasesAgree, LifeCycle
  <2> QED
    BY <1>4, <2>2, <2>3 DEF Good
<1> DEFINE swept == UNION {RunReady(b) : b \in {begun, killed}}
           ended == {y \in swept : y.l.requests = {} /\ y.l.ending # "none"}
<1>5. x = begun \/ x \in swept \/ \E y \in ended : x = [y EXCEPT !.l.active = FALSE]
  BY DEF CloseResults, begun, killed
<1>6. \A y \in swept : Ok(y)
  BY <1>3
<1> HIDE DEF swept, Ok
<1>7. Ok(x)
  BY <1>1, <1>4, <1>5, <1>6
<1> QED
  BY <1>7 DEF Ok

\* Before the first start() there is neither a process_state nor a process.
LEMMA NothingYet ==
    /\ NoDriver \in DriverRecord /\ NoProcess \in LibRecord
    /\ NoBytes["out"] = 0 /\ NoBytes["err"] = 0
<1>1. NoBytes \in [Reads -> 0 .. MaxOutput] /\ NoBytes \in [Reads -> Nat]
  BY DriverAssumption DEF NoBytes
<1>2. 0 \in 0 .. InputSize /\ 0 \in 0 .. 1
  BY DriverAssumption
<1>3. NoDriver \in DriverRecord
  BY <1>1, <1>2 DEF NoDriver, DriverRecord
<1>4. NoProcess \in LibRecord
  BY <1>1 DEF NoProcess, LibRecord
<1> QED
  BY <1>3, <1>4 DEF NoBytes, Reads

\* start(): a new process_state on a process that was admitted, or on none.
LEMMA StartKeeps ==
    ASSUME NEW mode \in Modes, NEW x \in StartResults(mode)
    PROVE  /\ Good(x) /\ LifeCycle(x) /\ x.d.payload = "driver" /\ ~x.d.closing /\ x.d.pass = 0
           /\ x.d.failed => x.d.done
           /\ ~x.d.failed => x.l.active /\ ~x.d.done
           /\ x.d.result = "none" /\ ~x.l.terminated /\ x.l.ending # "TERMINATED"
<1>1. mode.retained \in BOOLEAN /\ mode.streamed \in BOOLEAN
  BY DriverAssumption
<1>2. \A i \in Reads : NoBytes[i] = 0
  BY NothingYet DEF Reads
<1> DEFINE d == [NoDriver EXCEPT !.payload = "driver", !.reserved = mode.retained, !.emit = mode.streamed]
           refused == [d EXCEPT !.failed = TRUE, !.done = TRUE]
           l == [NoProcess EXCEPT !.active = TRUE]
           gone == [l EXCEPT !.ending = "EXITED"]
<1>3. d \in DriverRecord /\ refused \in DriverRecord
  BY <1>1, NothingYet DEF DriverRecord
<1>4. {NoProcess, l, gone} \subseteq LibRecord
  BY NothingYet, DriverAssumption, ZenonT(40) DEF LibRecord
<1>5. /\ d.size = NoBytes /\ d.line = NoBytes /\ d.eof = {} /\ d.pending = {} /\ ~d.terminal /\ ~d.limited
      /\ refused.size = NoBytes /\ refused.line = NoBytes /\ refused.eof = {} /\ refused.pending = {}
      /\ ~refused.terminal /\ ~refused.limited /\ refused.failed /\ refused.done /\ ~d.failed /\ ~d.done
      /\ d.payload = "driver" /\ refused.payload = "driver" /\ ~d.closing /\ ~refused.closing
      /\ d.pass = 0 /\ refused.pass = 0 /\ d.result = "none" /\ refused.result = "none"
  BY DEF NoDriver
<1>6. /\ l.active /\ ~NoProcess.active
      /\ \A y \in {NoProcess, l, gone} : /\ y.requests = {} /\ y.read = NoBytes /\ y.written = NoBytes
                                         /\ ~y.terminated /\ y.ending # "TERMINATED"
  BY DEF NoProcess
<1> HIDE DEF d, refused, l, gone
<1>7. x \in [d : {d}, l : {l}] \cup [d : {refused}, l : {NoProcess, gone}]
  BY DEF StartResults, d, refused, l, gone
<1>8. x \in DriverPair /\ x.d \in {d, refused} /\ x.l \in {NoProcess, l, gone} /\ (x.d = d => x.l = l)
  BY <1>3, <1>4, <1>5, <1>7 DEF DriverPair
<1>9. BytesAccounted(x) /\ LeasesAgree(x)
  <2>1. /\ x.d.size = NoBytes /\ x.d.line = NoBytes /\ x.d.eof = {} /\ x.d.pending = {} /\ ~x.d.terminal
        /\ x.l.read = NoBytes /\ x.l.written = NoBytes /\ x.l.requests = {}
    BY <1>5, <1>6, <1>8
  <2>2. x.d.size["out"] + x.d.size["err"] <= MaxOutput
    BY <2>1, NothingYet, DriverAssumption
  <2> QED
    BY <1>2, <2>1, <2>2 DEF BytesAccounted, LeasesAgree
<1>10. LifeCycle(x)
  BY <1>5, <1>6, <1>8 DEF LifeCycle
<1> QED
  BY <1>5, <1>6, <1>8, <1>9, <1>10 DEF Good

\* release(): nothing is freed that the library may still touch.
LEMMA ReleaseKeeps ==
    ASSUME NEW s, Good(s), LifeCycle(s), s.d.payload = "driver", NEW x \in Released(s)
    PROVE  /\ Good(x) /\ LifeCycle(x) /\ x.l = s.l
           /\ x.d.closing = s.d.closing /\ x.d.result = s.d.result
<1>1. s \in DriverPair
  BY DEF Good
<1>2. PICK p \in {"retainer", "freed"}, r \in BOOLEAN :
         /\ x = [s EXCEPT !.d.payload = p, !.d.reserved = r]
         /\ p = "freed" => ~s.l.active
  <2>1. CASE s.l.active
    <3>1. x = [s EXCEPT !.d.payload = "retainer"]
      BY <2>1 DEF Released
    <3>2. x = [s EXCEPT !.d.payload = "retainer", !.d.reserved = s.d.reserved]
      BY <1>1, <3>1 DEF DriverPair, DriverRecord
    <3> QED
      BY <1>1, <3>2 DEF DriverPair, DriverRecord
  <2>2. CASE ~s.l.active
    BY <2>2 DEF Released
  <2> QED
    BY <2>1, <2>2
<1>3. x.d = [s.d EXCEPT !.payload = p, !.reserved = r] /\ x.l = s.l /\ x \in DriverPair
  BY <1>1, <1>2 DEF DriverPair, DriverRecord
<1>4. BytesAccounted(x) /\ LeasesAgree(x)
  BY <1>1, <1>3 DEF Good, DriverPair, DriverRecord, BytesAccounted, LeasesAgree
<1>5. LifeCycle(x) /\ x.d.closing = s.d.closing /\ x.d.result = s.d.result
  BY <1>1, <1>2, <1>3, ZenonT(40) DEF DriverPair, DriverRecord, LifeCycle
<1> QED
  BY <1>3, <1>4, <1>5 DEF Good

\* The child and its descendants write, close and end; only an open stream grows.
LEMMA ChildKeeps ==
    ASSUME DriverIInv, ChildNext
    PROVE  /\ DriverIInv' /\ drv' = drv /\ lib'.active = lib.active /\ lib'.terminated = lib.terminated
           /\ lib'.ending # lib.ending /\ lib'.ending = "TERMINATED" => lib.terminated
<1>1. drv \in DriverRecord /\ lib \in LibRecord /\ drv' = drv
  BY DEF DriverIInv, Good, DriverState, DriverPair, ChildNext, ChildWrite, ChildCloses, ChildEnds
<1>2. CASE \E i \in Reads : ChildWrite(i)
  <2>1. PICK i \in Reads : ChildWrite(i)
    BY <1>2
  <2>2. /\ lib' = [lib EXCEPT !.written = [lib.written EXCEPT ![i] = lib.written[i] + 1]] /\ i \notin lib.closed
        /\ lib.written \in [Reads -> Nat] /\ lib.read \in [Reads -> Nat]
    BY <1>1, <2>1 DEF ChildWrite, LibRecord
  <2>3. lib' \in LibRecord
    BY <1>1, <2>2 DEF LibRecord
  <2>4. BytesAccounted(DriverState)'
    BY <1>1, <2>2 DEF DriverIInv, Good, BytesAccounted, DriverState, LibRecord
  <2>5. /\ LeasesAgree(DriverState)' /\ LifeCycle(DriverState)'
        /\ lib'.active = lib.active /\ lib'.terminated = lib.terminated
        /\ lib'.ending # lib.ending /\ lib'.ending = "TERMINATED" => lib.terminated
    BY <1>1, <2>2 DEF DriverIInv, Good, LeasesAgree, LifeCycle, DriverState, LibRecord
  <2> QED
    BY <1>1, <2>3, <2>4, <2>5 DEF DriverIInv, Good, DriverState, DriverPair
<1>3. CASE \E i \in Reads : ChildCloses(i)
  <2>1. PICK i \in Reads : lib' = [lib EXCEPT !.closed = lib.closed \cup {i}]
    BY <1>3 DEF ChildCloses
  <2>2. lib' \in LibRecord
    BY <1>1, <2>1 DEF LibRecord
  <2>3. BytesAccounted(DriverState)'
    BY <1>1, <2>1 DEF DriverIInv, Good, BytesAccounted, DriverState, LibRecord
  <2>4. /\ LeasesAgree(DriverState)' /\ LifeCycle(DriverState)'
        /\ lib'.active = lib.active /\ lib'.terminated = lib.terminated
        /\ lib'.ending # lib.ending /\ lib'.ending = "TERMINATED" => lib.terminated
    BY <1>1, <2>1 DEF DriverIInv, Good, LeasesAgree, LifeCycle, DriverState, LibRecord
  <2> QED
    BY <1>1, <2>2, <2>3, <2>4 DEF DriverIInv, Good, DriverState, DriverPair
<1>4. CASE \E e \in Ending : ChildEnds(e)
  <2>1. PICK e \in Ending : lib' = [lib EXCEPT !.ending = e] /\ (e = "TERMINATED" => lib.terminated)
    BY <1>4 DEF ChildEnds
  <2>2. lib' \in LibRecord
    BY <1>1, <2>1 DEF LibRecord
  <2>3. BytesAccounted(DriverState)'
    BY <1>1, <2>1 DEF DriverIInv, Good, BytesAccounted, DriverState, LibRecord
  <2>4. /\ LeasesAgree(DriverState)' /\ LifeCycle(DriverState)'
        /\ lib'.active = lib.active /\ lib'.terminated = lib.terminated
        /\ lib'.ending # lib.ending /\ lib'.ending = "TERMINATED" => lib.terminated
    BY <1>1, <2>1 DEF DriverIInv, Good, LeasesAgree, LifeCycle, DriverState, LibRecord
  <2> QED
    BY <1>1, <2>2, <2>3, <2>4 DEF DriverIInv, Good, DriverState, DriverPair
<1> QED
  BY <1>2, <1>3, <1>4 DEF ChildNext

\* A call of the driver that ends in one of the pairs S keeps the invariant when
\* all of them do.
LEMMA BecomesKeeps ==
    ASSUME NEW S, \A s \in S : Good(s) /\ LifeCycle(s), Becomes(S)
    PROVE  DriverIInv' /\ DriverState' \in S
<1>1. PICK s \in S : drv' = s.d /\ lib' = s.l
  BY DEF Becomes
<1>2. s = [d |-> s.d, l |-> s.l]
  BY DEF Good, DriverPair
<1>3. DriverState' = s
  BY <1>1, <1>2 DEF DriverState
<1> QED
  BY <1>3 DEF DriverIInv

\* What process_driver.c does in one call, and what the library and the child do
\* in between, keeps the inductive invariant.
LEMMA DriverStepKeeps == ASSUME DriverIInv, DriverNext PROVE DriverIInv'
<1> DEFINE s == DriverState
<1>1. Good(s) /\ LifeCycle(s) /\ s.d = drv /\ s.l = lib /\ drv \in DriverRecord /\ lib \in LibRecord
  BY DEF DriverIInv, DriverState, Good, DriverPair
<1>2. CASE \E mode \in Modes : Start(mode)
  BY <1>2, StartKeeps, BecomesKeeps DEF Start
<1>3. CASE Tick
  <2>1. lib.active
    BY <1>1, <1>3 DEF Tick, LifeCycle
  <2> QED
    BY <1>1, <1>3, <2>1, TickKeeps, BecomesKeeps DEF Tick
<1>4. CASE Terminate
  <2>1. lib' = [lib EXCEPT !.terminated = TRUE] /\ drv' = drv
    BY <1>4 DEF Terminate
  <2>2. lib' \in LibRecord
    BY <1>1, <2>1 DEF LibRecord
  <2>3. BytesAccounted(s)' /\ LeasesAgree(s)' /\ LifeCycle(s)'
    BY <1>1, <2>1 DEF Good, BytesAccounted, LeasesAgree, LifeCycle, DriverState, LibRecord
  <2> QED
    BY <1>1, <2>1, <2>2, <2>3 DEF DriverIInv, Good, DriverState, DriverPair
<1>5. CASE Close
  BY <1>1, <1>5, CloseKeeps, BecomesKeeps DEF Close, Idle
<1>6. CASE Release
  BY <1>1, <1>6, ReleaseKeeps, BecomesKeeps DEF Release, Idle
<1>7. CASE Reap
  <2>1. PICK x \in CloseResults(s) :
          /\ lib' = x.l
          /\ drv' = IF x.l.active THEN x.d ELSE [x.d EXCEPT !.payload = "freed", !.reserved = FALSE]
    BY <1>7 DEF Reap
  <2>2. Good(x) /\ LifeCycle(x) /\ x \in DriverPair /\ x.d.payload = "retainer"
    BY <1>1, <1>7, <2>1, CloseKeeps DEF Reap, Good
  <2>3. CASE x.l.active
    BY <2>1, <2>2, <2>3 DEF DriverIInv, Good, BytesAccounted, LeasesAgree, LifeCycle, DriverState,
       DriverPair
  <2>4. CASE ~x.l.active
    <3>1. drv' \in DriverRecord /\ lib' \in LibRecord
      BY <2>1, <2>2, <2>4 DEF DriverPair, DriverRecord
    <3>2. BytesAccounted(s)' /\ LeasesAgree(s)' /\ LifeCycle(s)'
      BY <2>1, <2>2, <2>4 DEF Good, BytesAccounted, LeasesAgree, LifeCycle, DriverState, DriverPair,
         DriverRecord
    <3> QED
      BY <3>1, <3>2 DEF DriverIInv, Good, DriverState, DriverPair
  <2> QED
    BY <2>3, <2>4
<1>8. CASE ChildNext
  BY <1>8, ChildKeeps
<1> QED
  BY <1>2, <1>3, <1>4, <1>5, <1>6, <1>7, <1>8 DEF DriverNext

\* Before the first call there is no process and no process_state.
LEMMA DriverStarts == ASSUME DriverInit PROVE DriverIInv
<1>1. drv \in DriverRecord /\ lib \in LibRecord
  BY NothingYet DEF DriverInit
<1>2. NoBytes = NoBytes /\ NoBytes["out"] + NoBytes["err"] <= MaxOutput /\ \A i \in Reads : NoBytes[i] = 0
  BY NothingYet, DriverAssumption DEF Reads
<1>3. BytesAccounted(DriverState)
  BY <1>2 DEF DriverInit, NoDriver, NoProcess, BytesAccounted, DriverState
<1>4. LeasesAgree(DriverState) /\ LifeCycle(DriverState)
  BY DEF DriverInit, NoDriver, NoProcess, LeasesAgree, LifeCycle, DriverState
<1> QED
  BY <1>1, <1>3, <1>4 DEF DriverIInv, Good, DriverState, DriverPair

\* Nothing happens to a driver that no step touches.
LEMMA DriverStutters == ASSUME DriverIInv, UNCHANGED driverVars PROVE DriverIInv'
  BY DEF DriverIInv, Good, DriverPair, BytesAccounted, LeasesAgree, LifeCycle, DriverState, driverVars

\* The inductive invariant implies what the driver promises.
LEMMA DriverPromises == ASSUME DriverIInv PROVE DriverInv /\ CaptureComplete
<1>1. drv \in DriverRecord /\ lib \in LibRecord
  BY DEF DriverIInv, Good, DriverState, DriverPair
<1>2. DriverInv
  BY <1>1 DEF DriverInv, DriverTypeOK, CaptureBounded, PayloadOutlivesLeases, DriverIInv, Good,
     BytesAccounted,
              LeasesAgree, LifeCycle, DriverState
<1>3. CaptureComplete
  <2>1. NothingDropped
    BY <1>1 DEF NothingDropped, DriverIInv, Good, BytesAccounted, DriverState
  <2>2. ASSUME drv.done, ~drv.failed, ~drv.limited
        PROVE  drv.result # "none" /\ drv.size = lib.written
    <3>1. drv.terminal /\ drv.eof = Reads /\ drv.result # "none" /\ drv.size = lib.read
      BY <2>2 DEF DriverIInv, Good, BytesAccounted, LeasesAgree, LifeCycle, DriverState
    <3>2. \A i \in Reads : lib.read[i] = lib.written[i]
      BY <3>1 DEF DriverIInv, Good, BytesAccounted, DriverState
    <3>3. lib.read \in [Reads -> Nat] /\ lib.written \in [Reads -> Nat]
      BY <1>1 DEF LibRecord
    <3>4. lib.read = lib.written
      BY <3>2, <3>3
    <3> QED
      BY <3>1, <3>4
  <2> QED
    BY <2>1, <2>2 DEF CaptureComplete
<1> QED
  BY <1>2, <1>3

\* For every size of the output, of the input and of a chunk, and every way a
\* process may end: the driver stays within its limits and its process_state
\* outlives every lease, whatever completes in which order (process_driver.c).
THEOREM DriverInvariant == DriverSpec => []DriverInv
<1>1. DriverInit => DriverIInv
  BY DriverStarts
<1>2. DriverIInv /\ [DriverNext]_driverVars => DriverIInv'
  BY DriverStepKeeps, DriverStutters
<1>3. DriverIInv => DriverInv
  BY DriverPromises
<1> QED
  BY <1>1, <1>2, <1>3, PTL DEF DriverSpec

\* ... and a driver that is done without a failure has captured all its process
\* wrote (process_driver.c).
THEOREM CaptureAlwaysComplete == DriverSpec => []CaptureComplete
<1>1. DriverInit => DriverIInv
  BY DriverStarts
<1>2. DriverIInv /\ [DriverNext]_driverVars => DriverIInv'
  BY DriverStepKeeps, DriverStutters
<1>3. DriverIInv => CaptureComplete
  BY DriverPromises
<1> QED
  BY <1>1, <1>2, <1>3, PTL DEF DriverSpec

-----------------------------------------------------------------------------
(* The worker.                                                                *)

\* A process is terminated, and a cancellation reported, on request only.
TerminatedOnRequest ==
    /\ wk.terminated \/ wk.early \/ wk.outcome = "CANCELLED" => wk.cancel_requested
    /\ lib.terminated => wk.terminated
    /\ ~drv.closing /\ lib.ending = "TERMINATED" => lib.terminated
    /\ drv.result = "TERMINATED" => lib.terminated

\* What the thread knows of its driver, by where it is.
ThreadOwns ==
    /\ wk.pc \in {"none", "setup", "check", "admit", "publish", "exited"} => ~lib.active
    /\ wk.pc \in {"setup", "check", "admit"} => drv.payload = "none"
    /\ wk.pc \in {"publish", "exited"} => drv.payload \in {"none", "driver"}
    /\ wk.pc \in {"mark", "run", "tick", "drain"} => drv.payload = "driver"
    /\ wk.pc \in {"mark", "run", "tick"} => wk.spawned /\ ~drv.closing /\ ~drv.done
    /\ wk.pc \in {"mark", "run"} \/ (wk.pc = "tick" /\ drv.failed) => drv.pass = 0
    /\ wk.pc = "drain" => drv.done

\* What has become of the worker: completed at its exit, with an outcome of its
\* own when nothing was spawned.
WorkerPast ==
    /\ wk.pc = "exited" => wk.completed
    /\ wk.completed => wk.pc \in {"exited", "none"}
    /\ wk.early /\ wk.pc # "none" =>
          wk.pc \in {"setup", "check", "publish", "exited"} /\ drv.payload = "none"
    /\ ~wk.spawned => wk.outcome \in {"SPAWN_FAILED", "WAIT_FAILED", "CANCELLED"}

WorkerIInv == DriverIInv /\ WorkerInv /\ TerminatedOnRequest /\ ThreadOwns /\ WorkerPast

\* What is left of WorkerIInv when DriverIInv is known.
WorkerRest == WorkerInv /\ TerminatedOnRequest /\ ThreadOwns /\ WorkerPast

\* A step that touches no driver keeps the invariant of the driver.
LEMMA ThreadAlone ==
    ASSUME WorkerIInv, UNCHANGED driverVars, WorkerRest'
    PROVE  WorkerIInv'
BY DriverStutters DEF WorkerIInv, WorkerRest

\* An accepted request stays accepted, and is the only thing cancel() changes.
LEMMA CancelledKeeps ==
    ASSUME WorkerIInv, wk.pc # "none", wk' = Cancelled(wk) \/ wk' = [Cancelled(wk) EXCEPT !.joining = TRUE],
           UNCHANGED driverVars
    PROVE  WorkerIInv'
<1>1. wk \in WorkerRecord /\ drv' = drv /\ lib' = lib
  BY DEF WorkerIInv, WorkerInv, WorkerTypeOK, driverVars
<1> DEFINE asked == [wk EXCEPT !.cancel_requested = TRUE, !.state = "CANCELLING", !.early = (wk.pc = "setup")]
<1>2. wk' \in {wk, [wk EXCEPT !.joining = TRUE]}
      \/ (~wk.completed /\ wk' \in {asked, [asked EXCEPT !.joining = TRUE]})
  BY DEF Cancelled
<1>3. wk' \in WorkerRecord
  BY <1>1, <1>2, ZenonT(40) DEF WorkerRecord, LiveState
<1>4. CASE wk' \in {wk, [wk EXCEPT !.joining = TRUE]}
  <2>1. /\ wk'.pc = wk.pc /\ wk'.completed = wk.completed /\ wk'.cancel_requested = wk.cancel_requested
        /\ wk'.state = wk.state /\ wk'.outcome = wk.outcome /\ wk'.spawned = wk.spawned
        /\ wk'.terminated = wk.terminated /\ wk'.early = wk.early
    BY <1>1, <1>4 DEF WorkerRecord
  <2>2. WorkerRest'
    BY <1>1, <1>3, <2>1 DEF WorkerIInv, WorkerRest, WorkerInv, WorkerTypeOK, CancelledOnlyIfAsked,
       CompletedMeansReaped,
       CancelNeverSucceeds, EarlyCancelPreventsAdmission, TerminatedOnRequest, ThreadOwns, WorkerPast
  <2> QED
    BY <2>2, ThreadAlone
<1>5. CASE ~wk.completed /\ wk' \in {asked, [asked EXCEPT !.joining = TRUE]}
  <2>1. /\ wk'.pc = wk.pc /\ ~wk'.completed /\ wk'.cancel_requested /\ wk'.state = "CANCELLING"
        /\ wk'.outcome = wk.outcome /\ wk'.spawned = wk.spawned /\ wk'.terminated = wk.terminated
        /\ wk'.early = (wk.pc = "setup")
    BY <1>1, <1>5 DEF WorkerRecord
  <2>2. WorkerInv'
    BY <1>1, <1>3, <2>1 DEF WorkerIInv, WorkerInv, WorkerTypeOK, CancelledOnlyIfAsked,
       CompletedMeansReaped,
       CancelNeverSucceeds, EarlyCancelPreventsAdmission, ThreadOwns
  <2>3. TerminatedOnRequest' /\ ThreadOwns'
    BY <1>1, <2>1 DEF WorkerIInv, TerminatedOnRequest, ThreadOwns
  <2>4. WorkerPast'
    BY <1>1, <1>5, <2>1 DEF WorkerIInv, ThreadOwns, WorkerPast
  <2> QED
    BY <2>2, <2>3, <2>4, ThreadAlone DEF WorkerRest
<1> QED
  BY <1>2, <1>4, <1>5

\* The steps in which the thread looks at the request or reports, and leaves the
\* driver alone: run_worker() before the admission, around the loop and at its end.
LEMMA ThreadReportsKeeps ==
    ASSUME WorkerIInv, Setup \/ CheckCancel \/ MarkRunning \/ Publish
    PROVE  WorkerIInv'
<1>1. wk \in WorkerRecord /\ drv' = drv /\ lib' = lib /\ UNCHANGED driverVars
  BY DEF WorkerIInv, WorkerInv, WorkerTypeOK, driverVars, Setup, CheckCancel, MarkRunning, Publish
<1> USE DEF CancelledOnlyIfAsked, CompletedMeansReaped, CancelNeverSucceeds, EarlyCancelPreventsAdmission
<1>2. CASE Setup
  <2>1. wk.pc = "setup" /\ wk' \in {[wk EXCEPT !.pc = "check"],
                                    [wk EXCEPT !.pc = "publish", !.outcome = "WAIT_FAILED"]}
    BY <1>2 DEF Setup
  <2>2. wk' \in WorkerRecord
    BY <1>1, <2>1 DEF WorkerRecord, ThreadPC, FinalState
  <2>3. /\ wk'.pc \in {"check", "publish"} /\ wk'.completed = wk.completed /\ wk'.state = wk.state
        /\ wk'.cancel_requested = wk.cancel_requested /\ wk'.outcome \in {wk.outcome, "WAIT_FAILED"}
        /\ wk'.spawned = wk.spawned /\ wk'.terminated = wk.terminated /\ wk'.early = wk.early
    BY <1>1, <2>1 DEF WorkerRecord
  <2>4. WorkerInv' /\ TerminatedOnRequest'
    BY <1>1, <2>1, <2>2, <2>3 DEF WorkerIInv, WorkerInv, WorkerTypeOK, TerminatedOnRequest
  <2>5. ThreadOwns' /\ WorkerPast'
    BY <1>1, <2>1, <2>3 DEF WorkerIInv, ThreadOwns, WorkerPast
  <2> QED
    BY <1>1, <2>4, <2>5, ThreadAlone DEF WorkerRest
<1>3. CASE CheckCancel
  <2>1. /\ wk.pc = "check"
        /\ \/ wk.cancel_requested /\ wk' = [wk EXCEPT !.pc = "publish", !.outcome = "CANCELLED"]
           \/ ~wk.cancel_requested /\ wk' = [wk EXCEPT !.pc = "admit"]
    BY <1>3 DEF CheckCancel
  <2>2. wk' \in WorkerRecord
    BY <1>1, <2>1 DEF WorkerRecord, ThreadPC, FinalState
  <2>3. /\ \/ wk.cancel_requested /\ wk'.pc = "publish" /\ wk'.outcome = "CANCELLED"
           \/ ~wk.cancel_requested /\ wk'.pc = "admit" /\ wk'.outcome = wk.outcome
        /\ wk'.completed = wk.completed /\ wk'.state = wk.state
        /\ wk'.cancel_requested = wk.cancel_requested
        /\ wk'.spawned = wk.spawned /\ wk'.terminated = wk.terminated /\ wk'.early = wk.early
    BY <1>1, <2>1 DEF WorkerRecord
  <2>4. WorkerInv' /\ TerminatedOnRequest'
    BY <1>1, <2>1, <2>2, <2>3 DEF WorkerIInv, WorkerInv, WorkerTypeOK, TerminatedOnRequest
  <2>5. ThreadOwns' /\ WorkerPast'
    BY <1>1, <2>1, <2>3 DEF WorkerIInv, ThreadOwns, WorkerPast, TerminatedOnRequest
  <2> QED
    BY <1>1, <2>4, <2>5, ThreadAlone DEF WorkerRest
<1>4. CASE MarkRunning
  <2>1. wk.pc = "mark" /\ wk' = [wk EXCEPT !.pc = "run", !.state = IF wk.cancel_requested THEN @ ELSE "RUNNING"]
    BY <1>4 DEF MarkRunning
  <2>2. wk' \in WorkerRecord
    BY <1>1, <2>1 DEF WorkerRecord, ThreadPC, LiveState
  <2>3. /\ wk'.pc = "run" /\ wk'.completed = wk.completed /\ wk'.outcome = wk.outcome
        /\ wk'.state = (IF wk.cancel_requested THEN wk.state ELSE "RUNNING")
        /\ wk'.cancel_requested = wk.cancel_requested
        /\ wk'.spawned = wk.spawned /\ wk'.terminated = wk.terminated /\ wk'.early = wk.early
    BY <1>1, <2>1 DEF WorkerRecord
  <2>4. WorkerInv' /\ TerminatedOnRequest'
    BY <1>1, <2>1, <2>2, <2>3 DEF WorkerIInv, WorkerInv, WorkerTypeOK, TerminatedOnRequest, WorkerPast
  <2>5. ThreadOwns' /\ WorkerPast'
    BY <1>1, <2>1, <2>3 DEF WorkerIInv, ThreadOwns, WorkerPast
  <2> QED
    BY <1>1, <2>4, <2>5, ThreadAlone DEF WorkerRest
<1>5. CASE Publish
  <2>1. wk.pc = "publish" /\ wk' = [wk EXCEPT !.pc = "exited", !.completed = TRUE, !.state = PublishedState(wk)]
    BY <1>5 DEF Publish
  <2>2. PublishedState(wk) \in FinalState
    BY <1>1 DEF WorkerRecord, PublishedState, FinalState
  <2>3. wk' \in WorkerRecord
    BY <1>1, <2>1, <2>2 DEF WorkerRecord, ThreadPC
  <2>4. /\ wk'.pc = "exited" /\ wk'.completed /\ wk'.outcome = wk.outcome
        /\ wk'.state = PublishedState(wk)
        /\ wk'.cancel_requested = wk.cancel_requested
        /\ wk'.spawned = wk.spawned /\ wk'.terminated = wk.terminated /\ wk'.early = wk.early
    BY <1>1, <2>1 DEF WorkerRecord
  <2>5. CompletedMeansReaped' /\ EarlyCancelPreventsAdmission'
    BY <1>1, <2>1, <2>4 DEF WorkerIInv, WorkerInv, ThreadOwns, DriverIInv, Good, LeasesAgree, DriverState
  <2>6. CancelledOnlyIfAsked' /\ CancelNeverSucceeds'
    <3>1. wk.outcome = "CANCELLED" => wk.cancel_requested
      BY DEF WorkerIInv, TerminatedOnRequest
    <3>2. ~wk.spawned => wk.outcome \in {"SPAWN_FAILED", "WAIT_FAILED", "CANCELLED"}
      BY DEF WorkerIInv, WorkerPast
    <3>3. PublishedState(wk) # "CANCELLING"
      BY <2>2 DEF FinalState
    <3> QED
      BY <1>1, <2>4, <3>1, <3>2, <3>3 DEF PublishedState
  <2>7. TerminatedOnRequest' /\ ThreadOwns' /\ WorkerPast'
    BY <1>1, <2>1, <2>4 DEF WorkerIInv, TerminatedOnRequest, ThreadOwns, WorkerPast
  <2> QED
    BY <1>1, <2>3, <2>5, <2>6, <2>7, ThreadAlone DEF WorkerRest, WorkerInv, WorkerTypeOK
<1> QED
  BY <1>2, <1>3, <1>4, <1>5

\* A step that changes the driver keeps the rest when the worker's record is the
\* same but for its place, and the driver is where the thread takes it to be.
LEMMA AdmitKeeps == ASSUME WorkerIInv, Admit PROVE WorkerIInv'
<1>1. wk \in WorkerRecord /\ wk.pc = "admit"
  BY DEF WorkerIInv, WorkerInv, WorkerTypeOK, Admit
<1> USE DEF CancelledOnlyIfAsked, CompletedMeansReaped, CancelNeverSucceeds, EarlyCancelPreventsAdmission
<1>2. CASE wk' = [wk EXCEPT !.pc = "publish"] /\ UNCHANGED driverVars
  <2>1. wk' \in WorkerRecord
    BY <1>1, <1>2 DEF WorkerRecord, ThreadPC
  <2>2. /\ wk'.pc = "publish" /\ wk'.completed = wk.completed /\ wk'.outcome = wk.outcome
        /\ wk'.state = wk.state /\ wk'.cancel_requested = wk.cancel_requested
        /\ wk'.spawned = wk.spawned /\ wk'.terminated = wk.terminated /\ wk'.early = wk.early
        /\ drv' = drv /\ lib' = lib
    BY <1>1, <1>2 DEF WorkerRecord, driverVars
  <2>3. WorkerInv' /\ TerminatedOnRequest'
    BY <1>1, <2>1, <2>2 DEF WorkerIInv, WorkerInv, WorkerTypeOK, TerminatedOnRequest
  <2>4. ThreadOwns' /\ WorkerPast'
    BY <1>1, <2>2 DEF WorkerIInv, ThreadOwns, WorkerPast
  <2> QED
    BY <1>2, <2>3, <2>4, ThreadAlone DEF WorkerRest
<1>3. ASSUME NEW mode \in Modes, Becomes(StartResults(mode)),
             wk' = IF drv'.failed THEN [wk EXCEPT !.pc = "drain"]
                   ELSE [wk EXCEPT !.pc = "mark", !.spawned = TRUE]
      PROVE  WorkerIInv'
  <2>1. DriverIInv' /\ DriverState' \in StartResults(mode)
    BY <1>3, StartKeeps, BecomesKeeps
  <2>2. /\ drv'.payload = "driver" /\ ~drv'.closing /\ drv'.pass = 0
        /\ drv'.failed => drv'.done
        /\ ~drv'.failed => lib'.active /\ ~drv'.done
        /\ drv'.result = "none" /\ ~lib'.terminated /\ lib'.ending # "TERMINATED"
    BY <2>1, StartKeeps DEF DriverState
  <2>3. wk' \in WorkerRecord
    BY <1>1, <1>3 DEF WorkerRecord, ThreadPC
  <2>4. /\ \/ drv'.failed /\ wk'.pc = "drain" /\ wk'.spawned = wk.spawned
           \/ ~drv'.failed /\ wk'.pc = "mark" /\ wk'.spawned
        /\ wk'.completed = wk.completed /\ wk'.outcome = wk.outcome
        /\ wk'.state = wk.state /\ wk'.cancel_requested = wk.cancel_requested
        /\ wk'.terminated = wk.terminated /\ wk'.early = wk.early
    BY <1>1, <1>3 DEF WorkerRecord
  <2>5. ~wk.completed /\ ~wk.early
    BY <1>1 DEF WorkerIInv, WorkerPast
  <2>6. WorkerInv'
    BY <1>1, <2>3, <2>4, <2>5 DEF WorkerIInv, WorkerInv, WorkerTypeOK
  <2>7. TerminatedOnRequest' /\ ThreadOwns'
    BY <2>2, <2>4, <2>5 DEF WorkerIInv, TerminatedOnRequest, ThreadOwns
  <2>8. WorkerPast'
    BY <1>1, <2>4, <2>5 DEF WorkerIInv, WorkerPast
  <2> QED
    BY <2>1, <2>6, <2>7, <2>8 DEF WorkerIInv
<1> QED
  BY <1>2, <1>3 DEF Admit

\* A step of the thread inside praktor_process_driver_run() or drain(): what the
\* worker's record says stays the same but for the place, the outcome and the
\* termination it asked for.
LEMMA RunCheckKeeps == ASSUME WorkerIInv, RunCheck PROVE WorkerIInv'
<1>1. wk \in WorkerRecord /\ wk.pc = "run" /\ drv \in DriverRecord /\ lib \in LibRecord
  BY DEF WorkerIInv, WorkerInv, WorkerTypeOK, RunCheck, DriverIInv, Good, DriverState, DriverPair
<1> USE DEF CancelledOnlyIfAsked, CompletedMeansReaped, CancelNeverSucceeds, EarlyCancelPreventsAdmission
<1>2. /\ drv.payload = "driver" /\ wk.spawned /\ ~drv.closing /\ ~drv.done /\ drv.pass = 0
      /\ ~wk.completed /\ ~wk.early /\ lib.active
  BY <1>1 DEF WorkerIInv, ThreadOwns, WorkerPast, DriverIInv, LifeCycle, DriverState
<1>3. CASE wk' = [wk EXCEPT !.pc = "tick"] /\ UNCHANGED driverVars
  <2>1. wk' \in WorkerRecord
    BY <1>1, <1>3 DEF WorkerRecord, ThreadPC
  <2>2. /\ wk'.pc = "tick" /\ wk'.completed = wk.completed /\ wk'.outcome = wk.outcome
        /\ wk'.state = wk.state /\ wk'.cancel_requested = wk.cancel_requested
        /\ wk'.spawned = wk.spawned /\ wk'.terminated = wk.terminated /\ wk'.early = wk.early
        /\ drv' = drv /\ lib' = lib
    BY <1>1, <1>3 DEF WorkerRecord, driverVars
  <2>3. WorkerInv' /\ TerminatedOnRequest'
    BY <1>1, <1>2, <2>1, <2>2 DEF WorkerIInv, WorkerInv, WorkerTypeOK, TerminatedOnRequest
  <2>4. ThreadOwns' /\ WorkerPast'
    BY <1>1, <1>2, <2>2 DEF WorkerIInv, ThreadOwns, WorkerPast
  <2> QED
    BY <1>3, <2>3, <2>4, ThreadAlone DEF WorkerRest
<1>4. CASE /\ wk.cancel_requested /\ wk' = [wk EXCEPT !.pc = "tick", !.terminated = TRUE]
           /\ lib' = [lib EXCEPT !.terminated = TRUE]
           /\ drv' = drv \/ drv' = [drv EXCEPT !.failed = TRUE]
  <2>1. wk' \in WorkerRecord
    BY <1>1, <1>4 DEF WorkerRecord, ThreadPC
  <2>2. /\ wk'.pc = "tick" /\ wk'.completed = wk.completed /\ wk'.outcome = wk.outcome
        /\ wk'.state = wk.state /\ wk'.cancel_requested
        /\ wk'.spawned = wk.spawned /\ wk'.terminated /\ wk'.early = wk.early
    BY <1>1, <1>4 DEF WorkerRecord
  <2>3. /\ lib'.active = lib.active /\ lib'.requests = lib.requests /\ lib'.read = lib.read
        /\ lib'.written = lib.written /\ lib'.closed = lib.closed /\ lib'.ending = lib.ending /\ lib'.terminated
        /\ lib' \in LibRecord
    BY <1>1, <1>4 DEF LibRecord
  <2>4. /\ drv'.size = drv.size /\ drv'.line = drv.line /\ drv'.limited = drv.limited /\ drv'.eof = drv.eof
        /\ drv'.pending = drv.pending /\ drv'.terminal = drv.terminal /\ drv'.result = drv.result
        /\ drv'.payload = drv.payload /\ drv'.closing = drv.closing /\ drv'.done = drv.done
        /\ drv'.pass = drv.pass /\ drv' \in DriverRecord
    BY <1>1, <1>4 DEF DriverRecord
  <2>5. DriverIInv'
    <3>1. BytesAccounted(DriverState)'
      BY <2>3, <2>4 DEF WorkerIInv, DriverIInv, Good, BytesAccounted, DriverState
    <3>2. LeasesAgree(DriverState)' /\ LifeCycle(DriverState)'
      BY <1>2, <2>3, <2>4 DEF WorkerIInv, DriverIInv, Good, LeasesAgree, LifeCycle, DriverState
    <3> QED
      BY <2>3, <2>4, <3>1, <3>2 DEF DriverIInv, Good, DriverState, DriverPair
  <2>6. WorkerInv' /\ TerminatedOnRequest'
    BY <1>1, <1>2, <1>4, <2>1, <2>2, <2>3 DEF WorkerIInv, WorkerInv, WorkerTypeOK, TerminatedOnRequest
  <2>7. ThreadOwns' /\ WorkerPast'
    BY <1>1, <1>2, <2>2, <2>3, <2>4 DEF WorkerIInv, ThreadOwns, WorkerPast
  <2> QED
    BY <2>5, <2>6, <2>7 DEF WorkerIInv
<1> QED
  BY <1>3, <1>4 DEF RunCheck

\* A pass of tick(), or none when terminate() has failed.
LEMMA RunTickKeeps == ASSUME WorkerIInv, RunTick PROVE WorkerIInv'
<1>1. wk \in WorkerRecord /\ wk.pc = "tick" /\ drv \in DriverRecord /\ lib \in LibRecord
  BY DEF WorkerIInv, WorkerInv, WorkerTypeOK, RunTick, DriverIInv, Good, DriverState, DriverPair
<1> USE DEF CancelledOnlyIfAsked, CompletedMeansReaped, CancelNeverSucceeds, EarlyCancelPreventsAdmission
<1>2. /\ drv.payload = "driver" /\ wk.spawned /\ ~drv.closing /\ ~drv.done
      /\ ~wk.completed /\ ~wk.early /\ lib.active
  BY <1>1 DEF WorkerIInv, ThreadOwns, WorkerPast, DriverIInv, LifeCycle, DriverState
<1> DEFINE place == IF drv'.pass = 1 THEN "tick" ELSE IF drv'.done THEN "drain" ELSE "run"
<1>3. /\ wk' = [wk EXCEPT !.pc = place]
      /\ place \in {"tick", "drain", "run"}
  BY DEF RunTick
<1>4. wk' \in WorkerRecord
  BY <1>1, <1>3 DEF WorkerRecord, ThreadPC
<1>5. /\ wk'.pc = place /\ ~wk'.completed /\ wk'.outcome = wk.outcome
      /\ wk'.state = wk.state /\ wk'.cancel_requested = wk.cancel_requested
      /\ wk'.spawned /\ wk'.terminated = wk.terminated /\ ~wk'.early
  BY <1>1, <1>2, <1>3 DEF WorkerRecord
<1>6. /\ DriverIInv' /\ drv'.payload = "driver" /\ ~drv'.closing /\ lib'.active
      /\ lib'.ending = lib.ending /\ lib'.terminated = lib.terminated
      /\ drv'.result \in {drv.result, lib.ending}
      /\ drv'.pass = 1 => ~drv'.done /\ ~drv'.failed
      /\ drv'.pass \in 0 .. 1
  <2>1. CASE drv.failed /\ drv' = [drv EXCEPT !.done = TRUE] /\ lib' = lib
    <3>1. drv.pass = 0
      BY <1>1, <2>1 DEF WorkerIInv, ThreadOwns
    <3>2. /\ drv'.size = drv.size /\ drv'.line = drv.line /\ drv'.limited = drv.limited /\ drv'.eof = drv.eof
          /\ drv'.pending = drv.pending /\ drv'.terminal = drv.terminal /\ drv'.result = drv.result
          /\ drv'.payload = drv.payload /\ drv'.closing = drv.closing /\ drv'.failed
          /\ drv'.pass = drv.pass /\ drv' \in DriverRecord
      BY <1>1, <2>1 DEF DriverRecord
    <3>3. BytesAccounted(DriverState)'
      <4>1. BytesAccounted([d |-> drv, l |-> lib])
        BY DEF WorkerIInv, DriverIInv, Good, DriverState
      <4>2. /\ drv.size["out"] + drv.size["err"] <= MaxOutput
            /\ \A i \in Reads : drv.line[i] <= drv.size[i] /\ lib.read[i] <= lib.written[i]
            /\ drv.limited \/ drv.size = lib.read \/ (drv.closing /\ drv.eof # Reads)
            /\ \A i \in drv.eof : i \in lib.closed /\ lib.read[i] = lib.written[i]
        BY <4>1 DEF BytesAccounted
      <4>3. /\ drv'.size["out"] + drv'.size["err"] <= MaxOutput
            /\ \A i \in Reads : drv'.line[i] <= drv'.size[i] /\ lib'.read[i] <= lib'.written[i]
            /\ drv'.limited \/ drv'.size = lib'.read \/ (drv'.closing /\ drv'.eof # Reads)
            /\ \A i \in drv'.eof : i \in lib'.closed /\ lib'.read[i] = lib'.written[i]
        BY <2>1, <3>2, <4>2
      <4> QED
        BY <4>3 DEF DriverState, BytesAccounted
    <3>4. LeasesAgree(DriverState)' /\ LifeCycle(DriverState)'
      BY <1>2, <2>1, <3>2 DEF WorkerIInv, DriverIInv, Good, LeasesAgree, LifeCycle, DriverState
    <3> QED
      BY <1>1, <1>2, <2>1, <3>1, <3>2, <3>3, <3>4 DEF DriverIInv, Good, DriverState, DriverPair
  <2>2. CASE Tick
    <3>1. Good(DriverState) /\ DriverState.d = drv /\ DriverState.l = lib
      BY DEF WorkerIInv, DriverIInv, DriverState
    <3>2. DriverIInv' /\ DriverState' \in TickResults(DriverState)
      BY <1>2, <2>2, <3>1, TickKeeps, BecomesKeeps DEF Tick
    <3>3. drv'.pass \in 0 .. 1 /\ DriverState'.d = drv' /\ DriverState'.l = lib'
      BY <3>2 DEF DriverIInv, Good, DriverState, DriverPair, DriverRecord
    <3> QED
      BY <1>2, <3>1, <3>2, <3>3, TickKeeps
  <2> QED
    BY <2>1, <2>2 DEF RunTick
<1> HIDE DEF place
<1>7. WorkerInv'
  BY <1>2, <1>4, <1>5 DEF WorkerIInv, WorkerInv, WorkerTypeOK
<1>8. TerminatedOnRequest'
  BY <1>2, <1>5, <1>6 DEF WorkerIInv, TerminatedOnRequest
<1>9. ThreadOwns' /\ WorkerPast'
  BY <1>2, <1>5, <1>6 DEF WorkerIInv, ThreadOwns, WorkerPast, place
<1> QED
  BY <1>6, <1>7, <1>8, <1>9 DEF WorkerIInv

\* drain() leaves when the library object is gone, with an outcome that is final.
LEMMA DrainKeeps == ASSUME WorkerIInv, Drain PROVE WorkerIInv'
<1>1. wk \in WorkerRecord /\ wk.pc = "drain" /\ drv.done /\ drv.payload = "driver" /\ ~wk.completed /\ ~wk.early
  BY DEF WorkerIInv, WorkerInv, WorkerTypeOK, Drain, ThreadOwns, WorkerPast
<1> USE DEF CancelledOnlyIfAsked, CompletedMeansReaped, CancelNeverSucceeds, EarlyCancelPreventsAdmission
<1>2. Good(DriverState) /\ LifeCycle(DriverState) /\ DriverState.d = drv /\ DriverState.l = lib
  BY DEF WorkerIInv, DriverIInv, DriverState
<1>3. DriverIInv' /\ DriverState' \in CloseResults(DriverState)
  BY <1>1, <1>2, CloseKeeps, BecomesKeeps DEF Drain
<1>4. /\ drv'.payload = "driver" /\ drv'.closing /\ drv'.done
      /\ drv'.result = drv.result /\ lib'.terminated = lib.terminated
  <2>1. DriverState'.d = drv' /\ DriverState'.l = lib'
    BY DEF DriverState
  <2> QED
    BY <1>1, <1>2, <1>3, <2>1, CloseKeeps
<1>5. drv.result = "TERMINATED" => wk.cancel_requested
  BY DEF WorkerIInv, TerminatedOnRequest
<1>6. CASE wk' = wk /\ lib'.active
  <2>1. WorkerInv'
    BY <1>1, <1>6 DEF WorkerIInv, WorkerInv, WorkerTypeOK
  <2>2. TerminatedOnRequest' /\ ThreadOwns' /\ WorkerPast'
    BY <1>1, <1>4, <1>6 DEF WorkerIInv, TerminatedOnRequest, ThreadOwns, WorkerPast
  <2> QED
    BY <1>3, <2>1, <2>2 DEF WorkerIInv
<1>7. CASE wk' = [wk EXCEPT !.pc = "publish", !.outcome = Outcome(wk, drv')] /\ ~lib'.active
  <2>1. drv' \in DriverRecord
    BY <1>3 DEF DriverIInv, Good, DriverState, DriverPair
  <2>2. ~drv'.failed /\ ~drv'.limited => drv'.result # "none"
    BY <1>3, <1>4 DEF DriverIInv, Good, LifeCycle, LeasesAgree, DriverState
  <2>3. drv'.result \in Ending \cup {"none"}
    BY <2>1 DEF DriverRecord
  <2>4. Ending \subseteq FinalState \cup {"TERMINATED"}
    BY DriverAssumption DEF FinalState
  <2>5. /\ Outcome(wk, drv') \in FinalState
        /\ Outcome(wk, drv') = "CANCELLED" => wk.cancel_requested
        /\ ~wk.spawned => Outcome(wk, drv') = "SPAWN_FAILED"
    BY <1>4, <1>5, <2>2, <2>3, <2>4, DriverAssumption DEF Outcome, FinalState
  <2>6. wk' \in WorkerRecord
    BY <1>1, <1>7, <2>5 DEF WorkerRecord, ThreadPC
  <2>7. /\ wk'.pc = "publish" /\ ~wk'.completed /\ wk'.outcome = Outcome(wk, drv')
        /\ wk'.state = wk.state /\ wk'.cancel_requested = wk.cancel_requested
        /\ wk'.spawned = wk.spawned /\ wk'.terminated = wk.terminated /\ ~wk'.early
    BY <1>1, <1>7 DEF WorkerRecord
  <2>8. WorkerInv'
    BY <1>1, <2>6, <2>7 DEF WorkerIInv, WorkerInv, WorkerTypeOK
  <2>9. TerminatedOnRequest' /\ ThreadOwns' /\ WorkerPast'
    BY <1>1, <1>4, <1>7, <2>5, <2>7 DEF WorkerIInv, TerminatedOnRequest, ThreadOwns, WorkerPast
  <2> QED
    BY <1>3, <2>8, <2>9 DEF WorkerIInv
<1> QED
  BY <1>6, <1>7 DEF Drain

\* start() and the end of destroy(): a new handle, and a released one.
LEMMA HandleKeeps == ASSUME WorkerIInv, WorkerStart \/ DestroyEnd PROVE WorkerIInv'
<1> USE DEF CancelledOnlyIfAsked, CompletedMeansReaped, CancelNeverSucceeds, EarlyCancelPreventsAdmission
<1>1. CASE WorkerStart
  <2>1. wk' = [NoWorker EXCEPT !.pc = "setup"] /\ DriverInit'
    BY <1>1 DEF WorkerStart, DriverInit
  <2>2. DriverIInv'
    <3>1. DriverInit' => DriverIInv'
      BY DriverStarts, PTL
    <3> QED
      BY <2>1, <3>1
  <2>3. wk' \in WorkerRecord
    BY <2>1 DEF NoWorker, WorkerRecord, ThreadPC, LiveState, FinalState
  <2>4. /\ wk'.pc = "setup" /\ ~wk'.completed /\ wk'.outcome = "SPAWN_FAILED" /\ wk'.state = "STARTING"
        /\ ~wk'.cancel_requested /\ ~wk'.spawned /\ ~wk'.terminated /\ ~wk'.early
    BY <2>1 DEF NoWorker
  <2>5. /\ drv'.payload = "none" /\ drv'.result = "none" /\ ~lib'.active /\ ~lib'.terminated
        /\ lib'.ending # "TERMINATED"
    BY <2>1 DEF DriverInit, NoDriver, NoProcess
  <2>6. WorkerInv'
    BY <2>3, <2>4 DEF WorkerInv, WorkerTypeOK
  <2>7. TerminatedOnRequest' /\ ThreadOwns' /\ WorkerPast'
    BY <2>4, <2>5 DEF TerminatedOnRequest, ThreadOwns, WorkerPast
  <2> QED
    BY <2>2, <2>6, <2>7 DEF WorkerIInv
<1>2. CASE DestroyEnd
  <2>1. /\ wk \in WorkerRecord /\ wk.pc = "exited" /\ wk.completed
        /\ wk' = [wk EXCEPT !.pc = "none", !.joining = FALSE]
    BY <1>2 DEF WorkerIInv, WorkerInv, WorkerTypeOK, WorkerPast, DestroyEnd
  <2>2. /\ DriverIInv' /\ lib' = lib /\ drv'.closing = drv.closing /\ drv'.result = drv.result
    <3>1. CASE UNCHANGED driverVars
      BY <3>1, DriverStutters DEF WorkerIInv, driverVars
    <3>2. CASE drv.payload = "driver" /\ Becomes(Released(DriverState))
      <4>1. Good(DriverState) /\ LifeCycle(DriverState) /\ DriverState.d = drv /\ DriverState.l = lib
        BY DEF WorkerIInv, DriverIInv, DriverState
      <4>2. DriverIInv' /\ DriverState' \in Released(DriverState)
        BY <3>2, <4>1, ReleaseKeeps, BecomesKeeps
      <4>3. DriverState'.d = drv' /\ DriverState'.l = lib'
        BY DEF DriverState
      <4> QED
        BY <3>2, <4>1, <4>2, <4>3, ReleaseKeeps
    <3> QED
      BY <1>2, <3>1, <3>2 DEF DestroyEnd
  <2>3. wk' \in WorkerRecord
    BY <2>1 DEF WorkerRecord, ThreadPC
  <2>4. /\ wk'.pc = "none" /\ wk'.completed /\ wk'.outcome = wk.outcome
        /\ wk'.state = wk.state /\ wk'.cancel_requested = wk.cancel_requested
        /\ wk'.spawned = wk.spawned /\ wk'.terminated = wk.terminated /\ wk'.early = wk.early
    BY <2>1 DEF WorkerRecord
  <2>5. WorkerInv'
    BY <2>1, <2>2, <2>3, <2>4 DEF WorkerIInv, WorkerInv, WorkerTypeOK
  <2>6. TerminatedOnRequest' /\ ThreadOwns' /\ WorkerPast'
    BY <2>1, <2>2, <2>4 DEF WorkerIInv, TerminatedOnRequest, ThreadOwns, WorkerPast
  <2> QED
    BY <2>2, <2>5, <2>6 DEF WorkerIInv
<1> QED
  BY <1>1, <1>2

\* Every step of the thread, of its callers and of the child keeps the invariant.
LEMMA WorkerStepKeeps == ASSUME WorkerIInv, WorkerNext PROVE WorkerIInv'
<1>1. CASE WorkerStart \/ DestroyEnd
  BY <1>1, HandleKeeps
<1>2. CASE Setup \/ CheckCancel \/ MarkRunning \/ Publish
  BY <1>2, ThreadReportsKeeps
<1>3. CASE Admit
  BY <1>3, AdmitKeeps
<1>4. CASE RunCheck
  BY <1>4, RunCheckKeeps
<1>5. CASE RunTick
  BY <1>5, RunTickKeeps
<1>6. CASE Drain
  BY <1>6, DrainKeeps
<1>7. CASE Cancel \/ DestroyBegin
  BY <1>7, CancelledKeeps DEF Cancel, DestroyBegin
<1>8. CASE ChildNext /\ UNCHANGED wk
  <2>1. /\ DriverIInv' /\ drv' = drv /\ lib'.active = lib.active /\ lib'.terminated = lib.terminated
        /\ lib'.ending # lib.ending /\ lib'.ending = "TERMINATED" => lib.terminated
    BY <1>8, ChildKeeps DEF WorkerIInv
  <2>2. WorkerTypeOK' /\ CancelledOnlyIfAsked' /\ CancelNeverSucceeds' /\ EarlyCancelPreventsAdmission'
    BY <1>8, <2>1 DEF WorkerIInv, WorkerInv, WorkerTypeOK, CancelledOnlyIfAsked, CancelNeverSucceeds,
       EarlyCancelPreventsAdmission
  <2>3. CompletedMeansReaped'
    BY <1>8, <2>1 DEF WorkerIInv, WorkerInv, CompletedMeansReaped, DriverIInv, Good, LeasesAgree,
       DriverState
  <2>4. TerminatedOnRequest'
    BY <1>8, <2>1 DEF WorkerIInv, TerminatedOnRequest
  <2>5. ThreadOwns' /\ WorkerPast'
    BY <1>8, <2>1 DEF WorkerIInv, ThreadOwns, WorkerPast
  <2> QED
    BY <2>1, <2>2, <2>3, <2>4, <2>5 DEF WorkerIInv, WorkerInv
<1> QED
  BY <1>1, <1>2, <1>3, <1>4, <1>5, <1>6, <1>7, <1>8 DEF WorkerNext, ThreadStep

\* No worker has been started.
LEMMA WorkerStarts == ASSUME WorkerInit PROVE WorkerIInv
<1>1. DriverIInv
  BY DriverStarts DEF WorkerInit
<1>2. wk \in WorkerRecord
  BY DEF WorkerInit, NoWorker, WorkerRecord, ThreadPC, LiveState, FinalState
<1>3. /\ drv.payload = "none" /\ drv.result = "none" /\ ~lib.active /\ ~lib.terminated
      /\ lib.ending # "TERMINATED"
  BY DEF WorkerInit, DriverInit, NoDriver, NoProcess
<1>4. WorkerInv
  BY <1>2 DEF WorkerInit, NoWorker, WorkerInv, WorkerTypeOK, CancelledOnlyIfAsked, CompletedMeansReaped,
              CancelNeverSucceeds, EarlyCancelPreventsAdmission
<1>5. TerminatedOnRequest /\ ThreadOwns /\ WorkerPast
  BY <1>3 DEF WorkerInit, NoWorker, TerminatedOnRequest, ThreadOwns, WorkerPast
<1> QED
  BY <1>1, <1>4, <1>5 DEF WorkerIInv

\* A stuttering step.
LEMMA WorkerStutters == ASSUME WorkerIInv, UNCHANGED workerVars PROVE WorkerIInv'
<1>1. wk' = wk /\ drv' = drv /\ lib' = lib /\ UNCHANGED driverVars
  BY DEF workerVars, driverVars
<1>2. WorkerInv' /\ TerminatedOnRequest'
  BY <1>1 DEF WorkerIInv, WorkerInv, WorkerTypeOK, CancelledOnlyIfAsked, CompletedMeansReaped,
              CancelNeverSucceeds, EarlyCancelPreventsAdmission, TerminatedOnRequest
<1>3. ThreadOwns' /\ WorkerPast'
  BY <1>1 DEF WorkerIInv, ThreadOwns, WorkerPast
<1>4. WorkerRest'
  BY <1>2, <1>3 DEF WorkerRest
<1> QED
  BY <1>1, <1>4, ThreadAlone

\* For every size and every way to end: an accepted cancellation is honoured
\* wherever the thread was, none is reported that nobody asked for, and a worker
\* that is completed has no process left (process_worker.c).
THEOREM WorkerInvariant == WorkerSpec => []WorkerInv
<1>1. WorkerInit => WorkerIInv
  BY WorkerStarts
<1>2. WorkerIInv /\ [WorkerNext]_workerVars => WorkerIInv'
  BY WorkerStepKeeps, WorkerStutters
<1>3. WorkerIInv => WorkerInv
  BY DEF WorkerIInv
<1> QED
  BY <1>1, <1>2, <1>3, PTL DEF WorkerSpec

\* The driver keeps its promises under the worker's thread too, which calls it in
\* an order of its own and terminates it from the loop (process_worker.c).
THEOREM WorkerDrives == WorkerSpec => [](DriverInv /\ CaptureComplete)
<1>1. WorkerInit => WorkerIInv
  BY WorkerStarts
<1>2. WorkerIInv /\ [WorkerNext]_workerVars => WorkerIInv'
  BY WorkerStepKeeps, WorkerStutters
<1>3. WorkerIInv => DriverInv /\ CaptureComplete
  BY DriverPromises DEF WorkerIInv
<1> QED
  BY <1>1, <1>2, <1>3, PTL DEF WorkerSpec
=============================================================================
