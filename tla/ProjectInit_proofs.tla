-------------------------- MODULE ProjectInit_proofs --------------------------
(* Proofs about ProjectInit: InitializesOnce holds of every number of programs,*)
(* every template, chunk and bound.  What InitializesOnce says of a call that  *)
(* is done does not follow from itself: the invariant InitIInv says what a call*)
(* knows at every place of praktor_init_project(), and that every inode has one*)
(* maker, which is what keeps the calls apart.                                 *)
EXTENDS ProjectInit, TLAPS


-----------------------------------------------------------------------------
(* The inductive invariant.                                                   *)

CallFields == {"at", "status", "path", "names", "made", "open", "read", "written", "message", "detail", "kept",
               "unseen", "unlisted"}

\* A call has all its fields, and directories and units are in range.
Shaped(c) ==
    /\ DOMAIN c = CallFields
    /\ c.path \in 1 .. 3 /\ c.read \in 0 .. TemplateUnits /\ c.written \in 0 .. c.read
    /\ c.unseen \subseteq 1 .. 3 /\ DOMAIN c.unlisted = 1 .. 3

Node == [by : Callers \cup {"owner"}, units : Nat]

Inodes == Seq(Node)

\* Places: before praktor.yml is created, and in the copy; a template is found.
Searching == {"start", "check", "find", "discover", "missing", "announce", "open", "create"}
Copying == {"read", "write", "close"}
Found == {"announce", "open", "create", "read", "write", "close"}

Succeeded(c) == c.at = "done" /\ c.status = "OK"

NotFound(c) == c.at = "done" /\ c.status = "TEMPLATE_NOT_FOUND"

\* What the call c of i made is its own, and nothing is made before the copy.
Own(i, c, nodes) ==
    /\ c.made # 0 => c.made \in 1 .. Len(nodes) /\ nodes[c.made].by = i
    /\ c.at \in Searching => c.made = 0 /\ c.read = 0
    /\ c.at \in Copying => c.made # 0 /\ nodes[c.made].units = c.written
    /\ c.at = "read" => c.written = c.read
    /\ c.at = "close" => c.written = TemplateUnits

\* praktor.yml is what a call that copies, is about to roll back or has reported
\* success made; one that failed has removed it or kept it.
Mine(c, e, nodes) ==
    /\ c.at \in Copying \/ (c.at = "rollback" /\ c.made # 0) => e = c.made
    /\ Succeeded(c) => e = c.made /\ c.made # 0 /\ nodes[c.made].units = TemplateUnits
    /\ c.at = "failing" \/ (c.at = "done" /\ c.status # "OK") => c.made = 0 \/ e # c.made \/ c.kept

\* What a call has reported so far, and the handles it holds.
Reported(c) ==
    /\ c.at \in {"failing", "rollback"} => c.status \notin {"OK", "TEMPLATE_NOT_FOUND"}
    /\ c.at = "start" => c.status = "INVALID_ARGUMENT" /\ c.message = "none"
    /\ c.at = "done" => c.message \in {c.status, "none"}
    /\ Succeeded(c) => c.message = "OK" /\ c.detail = {c.path}
    /\ c.at \in (Searching \ {"create"}) \cup {"failing", "done"} => c.open = {}

\* The directory q of s has no template of the name, as far as c could see.
Passed(q, c, s) == q \in c.unseen \/ ~("wanted" \in s[q].names \/ s[q].dir)

\* The templates of the directories Q of s without those missed in each.
Listed(Q, missed, s) == UNION {s[q].names \ missed[q] : q \in Q}

\* The directories before the one looked at have been passed over for a reason,
\* and the names collected are those that could be looked at so far.
Searched(c, s) ==
    /\ c.at \in {"start", "check"} => c.path = 1 /\ c.unseen = {}
    /\ c.at \in {"start", "check", "find"} \/ c.at \in Found \/ Succeeded(c) =>
          (\A q \in c.unseen : q < c.path) /\ \A q \in 1 .. 3 : q < c.path => Passed(q, c, s)
    /\ c.at \in Found \/ Succeeded(c) => ~Passed(c.path, c, s)
    /\ c.at \in {"discover", "missing"} \/ NotFound(c) => \A q \in 1 .. 3 : Passed(q, c, s)
    /\ c.at \in {"start", "check", "find"} => c.names = {}
    /\ c.at = "discover" => c.names = Listed({r \in 1 .. 3 : r < c.path}, c.unlisted, s)
    /\ c.at = "missing" => c.names = Listed(1 .. 3, c.unlisted, s)
    /\ NotFound(c) => c.detail = Listed(1 .. 3, c.unlisted, s)

\* All that concerns the call c of i.
CallExact(i, c, e, nodes, s) ==
    Shaped(c) /\ Own(i, c, nodes) /\ Mine(c, e, nodes) /\ Reported(c) /\ Searched(c, s)

\* praktor.yml names a file, and a file that was there at the start is still it.
FilesExact(e, nodes) ==
    /\ nodes \in Inodes /\ e \in 0 .. Len(nodes)
    /\ (nodes # <<>> /\ nodes[1].by = "owner") => e = 1 /\ Len(nodes) = 1

InitIInv ==
    /\ DOMAIN call = Callers /\ call = [i \in Callers |-> call[i]]
    /\ FilesExact(entry, inode)
    /\ \A i \in Callers : CallExact(i, call[i], entry, inode, site)

-----------------------------------------------------------------------------
(* Steps.                                                                     *)

\* The next state, in the terms of the invariant.
LEMMA InvariantNext ==
    ASSUME DOMAIN call' = Callers, call' = [i \in Callers |-> call'[i]], FilesExact(entry', inode'),
           \A i \in Callers : CallExact(i, call'[i], entry', inode', site')
    PROVE  InitIInv'
<1>1. FilesExact(entry, inode)'
  BY DEF FilesExact, Inodes
<1>2. \A i \in Callers : CallExact(i, call[i], entry, inode, site)'
  BY DEF CallExact, Shaped, Own, Mine, Reported, Searched, Passed, Listed, Succeeded, NotFound
<1> QED
  BY <1>1, <1>2 DEF InitIInv

\* A step of i that touches no file keeps the invariant when it keeps what
\* concerns i.
LEMMA QuietStep ==
    ASSUME InitIInv, NEW i \in Callers, NEW place, NEW r, Goto(i, place, r), UNCHANGED <<site, entry, inode>>,
           CallExact(i, [r EXCEPT !.at = place], entry, inode, site)
    PROVE  InitIInv'
<1>1. /\ DOMAIN call' = Callers /\ call' = [j \in Callers |-> call'[j]]
      /\ call'[i] = [r EXCEPT !.at = place] /\ \A j \in Callers \ {i} : call'[j] = call[j]
  BY DEF Goto, InitIInv
<1>2. \A j \in Callers : CallExact(j, call'[j], entry', inode', site')
  BY <1>1 DEF InitIInv
<1>3. FilesExact(entry', inode')
  BY DEF InitIInv
<1> QED
  BY <1>1, <1>2, <1>3, InvariantNext

\* A failure before the copy: nothing was made and nothing is open.
LEMMA FailingStep ==
    ASSUME InitIInv, NEW i \in Callers, NEW status, status \notin {"OK", "TEMPLATE_NOT_FOUND"},
           call[i].at \in Searching \ {"create"}, UNCHANGED <<site, entry, inode>>,
           Goto(i, "failing", [call[i] EXCEPT !.status = status])
    PROVE  InitIInv'
<1> DEFINE c == call[i]
<1>1. /\ c.at \in Searching \ {"create"} /\ CallExact(i, c, entry, inode, site)
      /\ status \notin {"OK", "TEMPLATE_NOT_FOUND"} /\ UNCHANGED <<site, entry, inode>>
      /\ Goto(i, "failing", [c EXCEPT !.status = status])
  BY DEF InitIInv
<1> HIDE DEF c
<1>2. CASE Goto(i, "failing", [c EXCEPT !.status = status])
  <2> DEFINE d == [[c EXCEPT !.status = status] EXCEPT !.at = "failing"]
  <2>1. /\ d.at = "failing" /\ Shaped(d)
        /\ d.status = status /\ d.path = c.path /\ d.names = c.names /\ d.made = c.made
        /\ d.open = c.open /\ d.read = c.read /\ d.written = c.written
        /\ d.message = c.message /\ d.detail = c.detail /\ d.kept = c.kept
        /\ d.unseen = c.unseen /\ d.unlisted = c.unlisted
    BY <1>1 DEF CallExact, Shaped, CallFields
  <2> HIDE DEF d
  <2>2. Own(i, d, inode) /\ Mine(d, entry, inode)
    BY <1>1, <2>1 DEF CallExact, Own, Mine, Succeeded, Searching, Copying
  <2>3. Reported(d)
    BY <1>1, <2>1 DEF CallExact, Reported, Succeeded, Searching
  <2>4. Searched(d, site)
    BY <1>1, <2>1 DEF CallExact, Searched, Passed, Succeeded, NotFound, Found
  <2> QED
    BY <1>1, <1>2, <2>1, <2>2, <2>3, <2>4, QuietStep DEF CallExact, d
<1> QED
  BY <1>1, <1>2

\* finished: of praktor_init_project() reports a status that is no success.
LEMMA LeaveStep ==
    ASSUME InitIInv, NEW i \in Callers, NEW status, Leave(i, status),
           status \notin {"OK", "TEMPLATE_NOT_FOUND"},
           call[i].at \in {"check", "failing"}, UNCHANGED <<site, entry, inode>>
    PROVE  InitIInv'
<1> DEFINE c == call[i]
<1>1. PICK m \in {status, "none"} : Goto(i, "done", [c EXCEPT !.status = status, !.message = m])
  BY DEF Leave
<1>2. /\ c.at \in {"check", "failing"} /\ CallExact(i, c, entry, inode, site)
      /\ status \notin {"OK", "TEMPLATE_NOT_FOUND"} /\ UNCHANGED <<site, entry, inode>>
      /\ Goto(i, "done", [c EXCEPT !.status = status, !.message = m]) /\ m \in {status, "none"}
  BY <1>1 DEF InitIInv
<1> HIDE DEF c
<1>3. CASE Goto(i, "done", [c EXCEPT !.status = status, !.message = m])
  <2> DEFINE d == [[c EXCEPT !.status = status, !.message = m] EXCEPT !.at = "done"]
  <2>1. /\ d.at = "done" /\ Shaped(d)
        /\ d.status = status /\ d.path = c.path /\ d.names = c.names /\ d.made = c.made
        /\ d.open = c.open /\ d.read = c.read /\ d.written = c.written /\ d.message = m
        /\ d.detail = c.detail /\ d.kept = c.kept /\ d.unseen = c.unseen
        /\ d.unlisted = c.unlisted
    BY <1>2 DEF CallExact, Shaped, CallFields
  <2> HIDE DEF d
  <2>2. Own(i, d, inode) /\ Mine(d, entry, inode)
    BY <1>2, <2>1 DEF CallExact, Own, Mine, Succeeded, Searching, Copying
  <2>3. Reported(d)
    BY <1>2, <2>1 DEF CallExact, Reported, Succeeded, Searching
  <2>4. Searched(d, site)
    BY <1>2, <2>1 DEF CallExact, Searched, Passed, Succeeded, NotFound, Found
  <2> QED
    BY <1>2, <1>3, <2>1, <2>2, <2>3, <2>4, QuietStep DEF CallExact, d
<1> QED
  BY <1>2, <1>3

\* The arguments are refused, or the search begins.
LEMMA StartKeeps == ASSUME InitIInv, NEW i \in Callers, StartCall(i) PROVE InitIInv'
<1> DEFINE c == call[i]
<1>1. c.at = "start" /\ CallExact(i, c, entry, inode, site) /\ UNCHANGED <<site, entry, inode>>
  BY DEF StartCall, At, InitIInv
<1> HIDE DEF c
<1>2. c.status = "INVALID_ARGUMENT" /\ c.message = "none"
  BY <1>1 DEF CallExact, Reported
<1>3. ASSUME NEW m \in {"INVALID_ARGUMENT", "none"}, Goto(i, "done", [c EXCEPT !.message = m])
      PROVE  InitIInv'
  <2> DEFINE d == [[c EXCEPT !.message = m] EXCEPT !.at = "done"]
  <2>1. /\ d.at = "done" /\ Shaped(d)
        /\ d.status = c.status /\ d.path = c.path /\ d.names = c.names /\ d.made = c.made
        /\ d.open = c.open /\ d.read = c.read /\ d.written = c.written /\ d.message = m
        /\ d.detail = c.detail /\ d.kept = c.kept /\ d.unseen = c.unseen
        /\ d.unlisted = c.unlisted
    BY <1>1, <1>2, <1>3 DEF CallExact, Shaped, CallFields
  <2> HIDE DEF d
  <2>2. Own(i, d, inode) /\ Mine(d, entry, inode)
    BY <1>1, <1>2, <1>3, <2>1 DEF CallExact, Own, Mine, Succeeded, Searching, Copying
  <2>3. Reported(d)
    BY <1>1, <1>2, <1>3, <2>1 DEF CallExact, Reported, Succeeded, Searching
  <2>4. Searched(d, site)
    BY <1>1, <1>2, <1>3, <2>1 DEF CallExact, Searched, Passed, Succeeded, NotFound, Found
  <2> QED
    BY <1>1, <1>2, <1>3, <2>1, <2>2, <2>3, <2>4, QuietStep DEF CallExact, d
<1>4. CASE Goto(i, "done", [c EXCEPT !.status = "NO_MEMORY"])
  <2> DEFINE d == [[c EXCEPT !.status = "NO_MEMORY"] EXCEPT !.at = "done"]
  <2>1. /\ d.at = "done" /\ Shaped(d)
        /\ d.status = "NO_MEMORY" /\ d.path = c.path /\ d.names = c.names /\ d.made = c.made
        /\ d.open = c.open /\ d.read = c.read /\ d.written = c.written
        /\ d.message = c.message /\ d.detail = c.detail /\ d.kept = c.kept
        /\ d.unseen = c.unseen /\ d.unlisted = c.unlisted
    BY <1>1 DEF CallExact, Shaped, CallFields
  <2> HIDE DEF d
  <2>2. Own(i, d, inode) /\ Mine(d, entry, inode)
    BY <1>1, <2>1 DEF CallExact, Own, Mine, Succeeded, Searching, Copying
  <2>3. Reported(d)
    BY <1>1, <2>1 DEF CallExact, Reported, Succeeded, Searching
  <2>4. Searched(d, site)
    BY <1>1, <2>1 DEF CallExact, Searched, Passed, Succeeded, NotFound, Found
  <2> QED
    BY <1>1, <1>4, <2>1, <2>2, <2>3, <2>4, QuietStep DEF CallExact, d
<1>5. CASE Goto(i, "check", c)
  <2> DEFINE d == [c EXCEPT !.at = "check"]
  <2>1. /\ d.at = "check" /\ Shaped(d)
        /\ d.status = c.status /\ d.path = c.path /\ d.names = c.names /\ d.made = c.made
        /\ d.open = c.open /\ d.read = c.read /\ d.written = c.written
        /\ d.message = c.message /\ d.detail = c.detail /\ d.kept = c.kept
        /\ d.unseen = c.unseen /\ d.unlisted = c.unlisted
    BY <1>1 DEF CallExact, Shaped, CallFields
  <2> HIDE DEF d
  <2>2. Own(i, d, inode) /\ Mine(d, entry, inode)
    BY <1>1, <2>1 DEF CallExact, Own, Mine, Succeeded, Searching, Copying
  <2>3. Reported(d)
    BY <1>1, <2>1 DEF CallExact, Reported, Succeeded, Searching
  <2>4. Searched(d, site)
    BY <1>1, <2>1 DEF CallExact, Searched, Passed, Succeeded, NotFound, Found
  <2> QED
    BY <1>1, <1>5, <2>1, <2>2, <2>3, <2>4, QuietStep DEF CallExact, d
<1>6. CASE CallFails(i, "NO_MEMORY")
  BY <1>1, <1>6, FailingStep DEF CallFails, Searching, c
<1> QED
  BY <1>3, <1>4, <1>5, <1>6 DEF StartCall, c

\* praktor.yml is there, or the search for a template begins.
LEMMA CheckKeeps == ASSUME InitIInv, NEW i \in Callers, CheckExisting(i) PROVE InitIInv'
<1> DEFINE c == call[i]
<1>1. c.at = "check" /\ CallExact(i, c, entry, inode, site) /\ UNCHANGED <<site, entry, inode>>
  BY DEF CheckExisting, At, InitIInv
<1> HIDE DEF c
<1>2. CASE Goto(i, "find", c)
  <2> DEFINE d == [c EXCEPT !.at = "find"]
  <2>1. /\ d.at = "find" /\ Shaped(d)
        /\ d.status = c.status /\ d.path = c.path /\ d.names = c.names /\ d.made = c.made
        /\ d.open = c.open /\ d.read = c.read /\ d.written = c.written
        /\ d.message = c.message /\ d.detail = c.detail /\ d.kept = c.kept
        /\ d.unseen = c.unseen /\ d.unlisted = c.unlisted
    BY <1>1 DEF CallExact, Shaped, CallFields
  <2> HIDE DEF d
  <2>2. Own(i, d, inode) /\ Mine(d, entry, inode)
    BY <1>1, <2>1 DEF CallExact, Own, Mine, Succeeded, Searching, Copying
  <2>3. Reported(d)
    BY <1>1, <2>1 DEF CallExact, Reported, Succeeded, Searching
  <2>4. Searched(d, site)
    BY <1>1, <2>1 DEF CallExact, Searched, Passed, Succeeded, NotFound, Found
  <2> QED
    BY <1>1, <1>2, <2>1, <2>2, <2>3, <2>4, QuietStep DEF CallExact, d
<1>3. CASE CallFails(i, "IO_ERROR")
  BY <1>1, <1>3, FailingStep DEF CallFails, Searching, c
<1>4. CASE Leave(i, "ALREADY_EXISTS")
  BY <1>1, <1>4, LeaveStep DEF c
<1> QED
  BY <1>2, <1>3, <1>4 DEF CheckExisting, c

\* A failure is reported.
LEMMA ReportKeeps == ASSUME InitIInv, NEW i \in Callers, Report(i) PROVE InitIInv'
<1> DEFINE c == call[i]
<1>1. c.at = "failing" /\ CallExact(i, c, entry, inode, site) /\ UNCHANGED <<site, entry, inode>>
  BY DEF Report, At, InitIInv
<1> HIDE DEF c
<1>2. c.status \notin {"OK", "TEMPLATE_NOT_FOUND"}
  BY <1>1 DEF CallExact, Reported
<1> QED
  BY <1>1, <1>2, LeaveStep DEF Report, c

\* A directory that has the template ends the search, another one is passed over.
LEMMA FindKeeps == ASSUME InitIInv, NEW i \in Callers, init_find_template(i) PROVE InitIInv'
<1> DEFINE c == call[i]
<1>1. c.at = "find" /\ CallExact(i, c, entry, inode, site) /\ UNCHANGED <<site, entry, inode>>
  BY DEF init_find_template, At, InitIInv
<1> HIDE DEF c
<1>2. /\ c.path \in 1 .. 3 /\ (Stat(c.path) <=> ("wanted" \in site[c.path].names \/ site[c.path].dir))
      /\ c.path # 3 => c.path + 1 \in 1 .. 3
      /\ \A q \in 1 .. 3 : (q < c.path + 1 \/ ~(c.path < 3)) => q < c.path \/ q = c.path
  BY <1>1 DEF CallExact, Shaped, Stat, Lists
<1>3. c.path \notin c.unseen /\ 1 \in 1 .. 3
  BY <1>1 DEF CallExact, Shaped, Searched
<1>4. ASSUME Stat(c.path), Goto(i, "announce", c) PROVE InitIInv'
  <2> DEFINE d == [c EXCEPT !.at = "announce"]
  <2>1. /\ d.at = "announce" /\ Shaped(d)
        /\ d.status = c.status /\ d.path = c.path /\ d.names = c.names /\ d.made = c.made
        /\ d.open = c.open /\ d.read = c.read /\ d.written = c.written
        /\ d.message = c.message /\ d.detail = c.detail /\ d.kept = c.kept
        /\ d.unseen = c.unseen /\ d.unlisted = c.unlisted
    BY <1>1, <1>2, <1>3, <1>4 DEF CallExact, Shaped, CallFields
  <2> HIDE DEF d
  <2>2. Own(i, d, inode) /\ Mine(d, entry, inode)
    BY <1>1, <1>2, <1>3, <1>4, <2>1 DEF CallExact, Own, Mine, Succeeded, Searching, Copying
  <2>3. Reported(d)
    BY <1>1, <1>2, <1>3, <1>4, <2>1 DEF CallExact, Reported, Succeeded, Searching
  <2>4. Searched(d, site)
    BY <1>1, <1>2, <1>3, <1>4, <2>1 DEF CallExact, Searched, Passed, Succeeded, NotFound, Found
  <2> QED
    BY <1>1, <1>2, <1>3, <1>4, <2>1, <2>2, <2>3, <2>4, QuietStep DEF CallExact, d
<1>5. ASSUME NEW r, (r = c /\ ~Stat(c.path)) \/ r = [c EXCEPT !.unseen = @ \cup {c.path}],
             c.path < 3, Goto(i, "find", [r EXCEPT !.path = c.path + 1])
      PROVE  InitIInv'
  <2> DEFINE d == [[r EXCEPT !.path = c.path + 1] EXCEPT !.at = "find"]
  <2>1. /\ d.at = "find" /\ Shaped(d)
        /\ d.status = c.status /\ d.path = c.path + 1 /\ d.names = c.names /\ d.made = c.made
        /\ d.open = c.open /\ d.read = c.read /\ d.written = c.written
        /\ d.message = c.message /\ d.detail = c.detail /\ d.kept = c.kept
        /\ d.unseen = r.unseen /\ d.unlisted = c.unlisted
    BY <1>1, <1>2, <1>3, <1>5 DEF CallExact, Shaped, CallFields
  <2>5. \/ d.unseen = c.unseen /\ ~Stat(c.path)
        \/ d.unseen = c.unseen \cup {c.path}
    BY <1>1, <1>2, <1>3, <1>5 DEF CallExact, Shaped, CallFields
  <2> HIDE DEF d
  <2>2. Own(i, d, inode) /\ Mine(d, entry, inode)
    BY <1>1, <1>2, <1>3, <1>5, <2>1 DEF CallExact, Own, Mine, Succeeded, Searching, Copying
  <2>3. Reported(d)
    BY <1>1, <1>2, <1>3, <1>5, <2>1 DEF CallExact, Reported, Succeeded, Searching
  <2>4. Searched(d, site)
    <3>1. /\ c.unseen \subseteq 1 .. 3 /\ \A q \in c.unseen : q < c.path
          /\ \A q \in 1 .. 3 : q < c.path => Passed(q, c, site)
          /\ c.names = {}
      BY <1>1 DEF CallExact, Shaped, Searched
    <3>2. \A q \in d.unseen : q < d.path
      BY <1>2, <2>1, <2>5, <3>1
    <3>3. \A q \in 1 .. 3 : q < d.path => Passed(q, d, site)
      BY <1>2, <2>1, <2>5, <3>1 DEF Passed
    <3> QED
      BY <2>1, <3>1, <3>2, <3>3 DEF Searched, Succeeded, NotFound, Found
  <2> QED
    BY <1>1, <1>2, <1>3, <1>5, <2>1, <2>2, <2>3, <2>4, QuietStep DEF CallExact, d
<1>6. ASSUME NEW r, (r = c /\ ~Stat(c.path)) \/ r = [c EXCEPT !.unseen = @ \cup {c.path}],
             ~(c.path < 3), Goto(i, "discover", [r EXCEPT !.path = 1])
      PROVE  InitIInv'
  <2> DEFINE d == [[r EXCEPT !.path = 1] EXCEPT !.at = "discover"]
  <2>1. /\ d.at = "discover" /\ Shaped(d)
        /\ d.status = c.status /\ d.path = 1 /\ d.names = c.names /\ d.made = c.made
        /\ d.open = c.open /\ d.read = c.read /\ d.written = c.written
        /\ d.message = c.message /\ d.detail = c.detail /\ d.kept = c.kept
        /\ d.unseen = r.unseen /\ d.unlisted = c.unlisted
    BY <1>1, <1>2, <1>3, <1>6 DEF CallExact, Shaped, CallFields
  <2>5. \/ d.unseen = c.unseen /\ ~Stat(c.path)
        \/ d.unseen = c.unseen \cup {c.path}
    BY <1>1, <1>2, <1>3, <1>6 DEF CallExact, Shaped, CallFields
  <2> HIDE DEF d
  <2>2. Own(i, d, inode) /\ Mine(d, entry, inode)
    BY <1>1, <1>2, <1>3, <1>6, <2>1 DEF CallExact, Own, Mine, Succeeded, Searching, Copying
  <2>3. Reported(d)
    BY <1>1, <1>2, <1>3, <1>6, <2>1 DEF CallExact, Reported, Succeeded, Searching
  <2>4. Searched(d, site)
    <3>1. {q \in 1 .. 3 : q < d.path} = {}
      BY <1>1, <2>1
    <3>2. Listed({}, d.unlisted, site) = {}
      BY DEF Listed
    <3>3. \A q \in 1 .. 3 : q < c.path \/ q = c.path
      BY <1>2, <1>6
    <3> QED
      BY <1>1, <1>2, <1>6, <2>1, <2>5, <3>1, <3>2, <3>3 DEF CallExact, Searched, Passed, Succeeded, NotFound, Found
  <2> QED
    BY <1>1, <1>2, <1>3, <1>6, <2>1, <2>2, <2>3, <2>4, QuietStep DEF CallExact, d
<1>7. CASE CallFails(i, "NO_MEMORY")
  BY <1>1, <1>7, FailingStep DEF CallFails, Searching, c
<1> QED
  BY <1>4, <1>5, <1>6, <1>7 DEF init_find_template, c

\* The names of a directory are added, but for those that are passed over.
LEMMA DiscoverKeeps == ASSUME InitIInv, NEW i \in Callers, init_discover_directory(i) PROVE InitIInv'
<1> DEFINE c == call[i]
<1>1. c.at = "discover" /\ CallExact(i, c, entry, inode, site) /\ UNCHANGED <<site, entry, inode>>
  BY DEF init_discover_directory, At, InitIInv
<1> HIDE DEF c
<1> DEFINE Before == {r \in 1 .. 3 : r < c.path}
<1>2. /\ c.path \in 1 .. 3 /\ c.names = Listed(Before, c.unlisted, site) /\ DOMAIN c.unlisted = 1 .. 3
      /\ \A q \in 1 .. 3 : Passed(q, c, site)
      /\ c.path # 3 => c.path + 1 \in 1 .. 3
  BY <1>1 DEF CallExact, Shaped, Searched
<1>3. /\ c.path \notin Before
      /\ {r \in 1 .. 3 : r < c.path + 1} = Before \cup {c.path}
      /\ c.path < 3 \/ 1 .. 3 = Before \cup {c.path}
  BY <1>2
<1>4. ASSUME NEW missed
      PROVE  c.names \cup (site[c.path].names \ missed) =
             Listed(Before \cup {c.path}, [c.unlisted EXCEPT ![c.path] = missed], site)
  <2> DEFINE u == [c.unlisted EXCEPT ![c.path] = missed]
  <2>1. u[c.path] = missed /\ \A q \in Before : u[q] = c.unlisted[q]
    BY <1>2, <1>3
  <2> HIDE DEF u, Before
  <2>2. Listed(Before, c.unlisted, site) = Listed(Before, u, site)
    BY <2>1 DEF Listed
  <2>3. Listed(Before \cup {c.path}, u, site) = Listed(Before, u, site) \cup (site[c.path].names \ u[c.path])
    BY DEF Listed
  <2> QED
    BY <1>2, <2>1, <2>2, <2>3 DEF u
<1> HIDE DEF Before
<1>5. ASSUME NEW missed, c.path < 3,
             Goto(i, "discover", [[c EXCEPT !.names = c.names \cup (site[c.path].names \ missed),
                                            !.unlisted[c.path] = missed] EXCEPT !.path = c.path + 1])
      PROVE  InitIInv'
  <2> DEFINE d == [[[c EXCEPT !.names = c.names \cup (site[c.path].names \ missed),
                              !.unlisted[c.path] = missed] EXCEPT !.path = c.path + 1] EXCEPT !.at = "discover"]
  <2>1. /\ d.at = "discover" /\ Shaped(d)
        /\ d.status = c.status /\ d.path = c.path + 1
        /\ d.names = c.names \cup (site[c.path].names \ missed) /\ d.made = c.made /\ d.open = c.open
        /\ d.read = c.read /\ d.written = c.written /\ d.message = c.message
        /\ d.detail = c.detail /\ d.kept = c.kept /\ d.unseen = c.unseen
        /\ d.unlisted = [c.unlisted EXCEPT ![c.path] = missed]
    BY <1>1, <1>2, <1>5 DEF CallExact, Shaped, CallFields
  <2> HIDE DEF d
  <2>2. Own(i, d, inode) /\ Mine(d, entry, inode)
    BY <1>1, <1>2, <1>5, <2>1 DEF CallExact, Own, Mine, Succeeded, Searching, Copying
  <2>3. Reported(d)
    BY <1>1, <1>2, <1>5, <2>1 DEF CallExact, Reported, Succeeded, Searching
  <2>4. Searched(d, site)
    <3>1. d.names = Listed({r \in 1 .. 3 : r < d.path}, d.unlisted, site)
      BY <1>3, <1>4, <2>1
    <3>2. \A q \in 1 .. 3 : Passed(q, d, site)
      BY <1>2, <2>1 DEF Passed
    <3> QED
      BY <2>1, <3>1, <3>2 DEF Searched, Succeeded, NotFound, Found
  <2> QED
    BY <1>1, <1>2, <1>5, <2>1, <2>2, <2>3, <2>4, QuietStep DEF CallExact, d
<1>6. ASSUME NEW missed, ~(c.path < 3),
             Goto(i, "missing", [c EXCEPT !.names = c.names \cup (site[c.path].names \ missed),
                                          !.unlisted[c.path] = missed])
      PROVE  InitIInv'
  <2> DEFINE d == [[c EXCEPT !.names = c.names \cup (site[c.path].names \ missed),
                             !.unlisted[c.path] = missed] EXCEPT !.at = "missing"]
  <2>1. /\ d.at = "missing" /\ Shaped(d)
        /\ d.status = c.status /\ d.path = c.path
        /\ d.names = c.names \cup (site[c.path].names \ missed) /\ d.made = c.made /\ d.open = c.open
        /\ d.read = c.read /\ d.written = c.written /\ d.message = c.message
        /\ d.detail = c.detail /\ d.kept = c.kept /\ d.unseen = c.unseen
        /\ d.unlisted = [c.unlisted EXCEPT ![c.path] = missed]
    BY <1>1, <1>2, <1>6 DEF CallExact, Shaped, CallFields
  <2> HIDE DEF d
  <2>2. Own(i, d, inode) /\ Mine(d, entry, inode)
    BY <1>1, <1>2, <1>6, <2>1 DEF CallExact, Own, Mine, Succeeded, Searching, Copying
  <2>3. Reported(d)
    BY <1>1, <1>2, <1>6, <2>1 DEF CallExact, Reported, Succeeded, Searching
  <2>4. Searched(d, site)
    <3>1. d.names = Listed(1 .. 3, d.unlisted, site)
      BY <1>3, <1>4, <1>6, <2>1
    <3>2. \A q \in 1 .. 3 : Passed(q, d, site)
      BY <1>2, <2>1 DEF Passed
    <3> QED
      BY <2>1, <3>1, <3>2 DEF Searched, Succeeded, NotFound, Found
  <2> QED
    BY <1>1, <1>2, <1>6, <2>1, <2>2, <2>3, <2>4, QuietStep DEF CallExact, d
<1>7. CASE CallFails(i, "NO_MEMORY") \/ CallFails(i, "IO_ERROR")
  BY <1>1, <1>7, FailingStep DEF CallFails, Searching, c
<1>8. CASE Goto(i, "failing", [call[i] EXCEPT !.status = "LIMIT_EXCEEDED"])
  BY <1>1, <1>8, FailingStep DEF Searching, c
<1> QED
  BY <1>5, <1>6, <1>7, <1>8 DEF init_discover_directory, Lists, c

\* A missing template is reported with the names there are.
LEMMA PublishNamesKeeps == ASSUME InitIInv, NEW i \in Callers, PublishNames(i) PROVE InitIInv'
<1> DEFINE c == call[i]
<1>1. c.at = "missing" /\ CallExact(i, c, entry, inode, site) /\ UNCHANGED <<site, entry, inode>>
  BY DEF PublishNames, At, InitIInv
<1> HIDE DEF c
<1>2. CASE Goto(i, "done", [c EXCEPT !.status = "TEMPLATE_NOT_FOUND", !.message = "TEMPLATE_NOT_FOUND", !.detail = c.names])
  <2> DEFINE d == [[c EXCEPT !.status = "TEMPLATE_NOT_FOUND", !.message = "TEMPLATE_NOT_FOUND", !.detail = c.names]
                 EXCEPT !.at = "done"]
  <2>1. /\ d.at = "done" /\ Shaped(d)
        /\ d.status = "TEMPLATE_NOT_FOUND" /\ d.path = c.path /\ d.names = c.names
        /\ d.made = c.made /\ d.open = c.open /\ d.read = c.read /\ d.written = c.written
        /\ d.message = "TEMPLATE_NOT_FOUND" /\ d.detail = c.names /\ d.kept = c.kept
        /\ d.unseen = c.unseen /\ d.unlisted = c.unlisted
    BY <1>1 DEF CallExact, Shaped, CallFields
  <2> HIDE DEF d
  <2>2. Own(i, d, inode) /\ Mine(d, entry, inode)
    BY <1>1, <2>1 DEF CallExact, Own, Mine, Succeeded, Searching, Copying
  <2>3. Reported(d)
    BY <1>1, <2>1 DEF CallExact, Reported, Succeeded, Searching
  <2>4. Searched(d, site)
    BY <1>1, <2>1 DEF CallExact, Searched, Passed, Succeeded, NotFound, Found
  <2> QED
    BY <1>1, <1>2, <2>1, <2>2, <2>3, <2>4, QuietStep DEF CallExact, d
<1>3. CASE CallFails(i, "NO_MEMORY")
  BY <1>1, <1>3, FailingStep DEF CallFails, Searching, c
<1> QED
  BY <1>2, <1>3 DEF PublishNames, c

\* The result strings are there before the copy begins.
LEMMA AnnounceKeeps == ASSUME InitIInv, NEW i \in Callers, Announce(i) PROVE InitIInv'
<1> DEFINE c == call[i]
<1>1. c.at = "announce" /\ CallExact(i, c, entry, inode, site) /\ UNCHANGED <<site, entry, inode>>
  BY DEF Announce, At, InitIInv
<1> HIDE DEF c
<1>2. CASE Goto(i, "open", c)
  <2> DEFINE d == [c EXCEPT !.at = "open"]
  <2>1. /\ d.at = "open" /\ Shaped(d)
        /\ d.status = c.status /\ d.path = c.path /\ d.names = c.names /\ d.made = c.made
        /\ d.open = c.open /\ d.read = c.read /\ d.written = c.written
        /\ d.message = c.message /\ d.detail = c.detail /\ d.kept = c.kept
        /\ d.unseen = c.unseen /\ d.unlisted = c.unlisted
    BY <1>1 DEF CallExact, Shaped, CallFields
  <2> HIDE DEF d
  <2>2. Own(i, d, inode) /\ Mine(d, entry, inode)
    BY <1>1, <2>1 DEF CallExact, Own, Mine, Succeeded, Searching, Copying
  <2>3. Reported(d)
    BY <1>1, <2>1 DEF CallExact, Reported, Succeeded, Searching
  <2>4. Searched(d, site)
    BY <1>1, <2>1 DEF CallExact, Searched, Passed, Succeeded, NotFound, Found
  <2> QED
    BY <1>1, <1>2, <2>1, <2>2, <2>3, <2>4, QuietStep DEF CallExact, d
<1>3. CASE CallFails(i, "NO_MEMORY")
  BY <1>1, <1>3, FailingStep DEF CallFails, Searching, c
<1> QED
  BY <1>2, <1>3 DEF Announce, c

\* The template is open from here on.
LEMMA OpenKeeps == ASSUME InitIInv, NEW i \in Callers, OpenSource(i) PROVE InitIInv'
<1> DEFINE c == call[i]
<1>1. c.at = "open" /\ CallExact(i, c, entry, inode, site) /\ UNCHANGED <<site, entry, inode>>
  BY DEF OpenSource, At, InitIInv
<1> HIDE DEF c
<1>2. CASE Goto(i, "create", [c EXCEPT !.open = {"source"}])
  <2> DEFINE d == [[c EXCEPT !.open = {"source"}] EXCEPT !.at = "create"]
  <2>1. /\ d.at = "create" /\ Shaped(d)
        /\ d.status = c.status /\ d.path = c.path /\ d.names = c.names /\ d.made = c.made
        /\ d.open = {"source"} /\ d.read = c.read /\ d.written = c.written
        /\ d.message = c.message /\ d.detail = c.detail /\ d.kept = c.kept
        /\ d.unseen = c.unseen /\ d.unlisted = c.unlisted
    BY <1>1 DEF CallExact, Shaped, CallFields
  <2> HIDE DEF d
  <2>2. Own(i, d, inode) /\ Mine(d, entry, inode)
    BY <1>1, <2>1 DEF CallExact, Own, Mine, Succeeded, Searching, Copying
  <2>3. Reported(d)
    BY <1>1, <2>1 DEF CallExact, Reported, Succeeded, Searching
  <2>4. Searched(d, site)
    BY <1>1, <2>1 DEF CallExact, Searched, Passed, Succeeded, NotFound, Found
  <2> QED
    BY <1>1, <1>2, <2>1, <2>2, <2>3, <2>4, QuietStep DEF CallExact, d
<1>3. CASE CallFails(i, "IO_ERROR")
  BY <1>1, <1>3, FailingStep DEF CallFails, Searching, c
<1> QED
  BY <1>2, <1>3 DEF OpenSource, c

\* The copy gives up: what was made is still praktor.yml, or nothing was made.
LEMMA GiveUpStep ==
    ASSUME InitIInv, NEW i \in Callers, NEW r, Goto(i, "rollback", r), UNCHANGED <<site, entry, inode>>,
           call[i].at \in {"create", "read", "write", "close"}, r.status \notin {"OK", "TEMPLATE_NOT_FOUND"},
           DOMAIN r = CallFields, \A f \in CallFields \ {"at", "status", "open"} : r[f] = call[i][f]
    PROVE  InitIInv'
<1> DEFINE c == call[i]
<1>1. /\ c.at \in {"create", "read", "write", "close"} /\ CallExact(i, c, entry, inode, site)
      /\ r.status \notin {"OK", "TEMPLATE_NOT_FOUND"} /\ UNCHANGED <<site, entry, inode>>
      /\ DOMAIN r = CallFields /\ \A f \in CallFields \ {"at", "status", "open"} : r[f] = c[f]
  BY DEF InitIInv
<1> HIDE DEF c
<1>2. CASE Goto(i, "rollback", r)
  <2> DEFINE d == [r EXCEPT !.at = "rollback"]
  <2>1. /\ d.at = "rollback" /\ Shaped(d)
        /\ d.status = r.status /\ d.path = c.path /\ d.names = c.names /\ d.made = c.made
        /\ d.open = r.open /\ d.read = c.read /\ d.written = c.written
        /\ d.message = c.message /\ d.detail = c.detail /\ d.kept = c.kept
        /\ d.unseen = c.unseen /\ d.unlisted = c.unlisted
    BY <1>1 DEF CallExact, Shaped, CallFields
  <2> HIDE DEF d
  <2>2. Own(i, d, inode) /\ Mine(d, entry, inode)
    BY <1>1, <2>1 DEF CallExact, Own, Mine, Succeeded, Searching, Copying
  <2>3. Reported(d)
    BY <1>1, <2>1 DEF CallExact, Reported, Succeeded, Searching
  <2>4. Searched(d, site)
    BY <1>1, <2>1 DEF CallExact, Searched, Passed, Succeeded, NotFound, Found
  <2> QED
    BY <1>1, <1>2, <2>1, <2>2, <2>3, <2>4, QuietStep DEF CallExact, d
<1> QED
  BY <1>2

\* ... and GiveUp leaves the handles to the rollback.
LEMMA GiveUpKeeps ==
    ASSUME InitIInv, NEW i \in Callers, NEW status, status \notin {"OK", "TEMPLATE_NOT_FOUND"},
           GiveUp(i, status),
           call[i].at \in {"create", "read", "write"}, UNCHANGED <<site, entry, inode>>
    PROVE  InitIInv'
<1> DEFINE r == [call[i] EXCEPT !.status = status]
<1>1. /\ DOMAIN r = CallFields /\ r.status = status
      /\ \A f \in CallFields \ {"at", "status", "open"} : r[f] = call[i][f]
  BY DEF InitIInv, CallExact, Shaped, CallFields
<1>2. Goto(i, "rollback", r)
  BY DEF GiveUp
<1> HIDE DEF r
<1> QED
  BY <1>1, <1>2, GiveUpStep

\* A chunk is read, the template is at its end, or it cannot be read.
LEMMA ReadKeeps == ASSUME InitIInv, NEW i \in Callers, ReadChunk(i) PROVE InitIInv'
<1> DEFINE c == call[i]
           more == Min({c.read + ChunkUnits, TemplateUnits})
<1>1. c.at = "read" /\ CallExact(i, c, entry, inode, site) /\ UNCHANGED <<site, entry, inode>>
  BY DEF ReadChunk, At, InitIInv
<1> HIDE DEF c
<1>2. /\ c.read \in 0 .. TemplateUnits /\ c.written = c.read
      /\ c.read # TemplateUnits => more \in 0 .. TemplateUnits /\ c.read <= more
  <2>1. c.read \in 0 .. TemplateUnits /\ c.written = c.read
    BY <1>1 DEF CallExact, Shaped, Own
  <2>2. c.read + ChunkUnits \in Nat /\ TemplateUnits \in Nat /\ c.read <= c.read + ChunkUnits
    BY <2>1, InitAssumption
  <2>3. \A a, b \in Nat : Min({a, b}) = a \/ Min({a, b}) = b
    <3> TAKE a \in Nat, b \in Nat
    <3>1. CASE a <= b
      BY <3>1 DEF Min
    <3>2. CASE b <= a
      BY <3>2 DEF Min
    <3> QED
      BY <3>1, <3>2
  <2>4. \A a, b \in Nat : Min({a, b}) <= a /\ Min({a, b}) <= b
    <3> TAKE a \in Nat, b \in Nat
    <3>1. CASE a <= b
      BY <3>1 DEF Min
    <3>2. CASE b <= a
      BY <3>2 DEF Min
    <3> QED
      BY <3>1, <3>2
  <2> HIDE DEF more
  <2>5. more \in {c.read + ChunkUnits, TemplateUnits} /\ more <= TemplateUnits
    BY <2>2, <2>3, <2>4 DEF more
  <2> QED
    BY <2>1, <2>2, <2>5
<1> HIDE DEF more
<1>3. ASSUME c.read = TemplateUnits, Goto(i, "close", c) PROVE InitIInv'
  <2> DEFINE d == [c EXCEPT !.at = "close"]
  <2>1. /\ d.at = "close" /\ Shaped(d)
        /\ d.status = c.status /\ d.path = c.path /\ d.names = c.names /\ d.made = c.made
        /\ d.open = c.open /\ d.read = c.read /\ d.written = c.written
        /\ d.message = c.message /\ d.detail = c.detail /\ d.kept = c.kept
        /\ d.unseen = c.unseen /\ d.unlisted = c.unlisted
    BY <1>1, <1>2, <1>3 DEF CallExact, Shaped, CallFields
  <2> HIDE DEF d
  <2>2. Own(i, d, inode) /\ Mine(d, entry, inode)
    BY <1>1, <1>2, <1>3, <2>1 DEF CallExact, Own, Mine, Succeeded, Searching, Copying
  <2>3. Reported(d)
    BY <1>1, <1>2, <1>3, <2>1 DEF CallExact, Reported, Succeeded, Searching
  <2>4. Searched(d, site)
    BY <1>1, <1>2, <1>3, <2>1 DEF CallExact, Searched, Passed, Succeeded, NotFound, Found
  <2> QED
    BY <1>1, <1>2, <1>3, <2>1, <2>2, <2>3, <2>4, QuietStep DEF CallExact, d
<1>4. ASSUME c.read # TemplateUnits, Goto(i, "write", [c EXCEPT !.read = more]) PROVE InitIInv'
  <2> DEFINE d == [[c EXCEPT !.read = more] EXCEPT !.at = "write"]
  <2>1. /\ d.at = "write" /\ Shaped(d)
        /\ d.status = c.status /\ d.path = c.path /\ d.names = c.names /\ d.made = c.made
        /\ d.open = c.open /\ d.read = more /\ d.written = c.written /\ d.message = c.message
        /\ d.detail = c.detail /\ d.kept = c.kept /\ d.unseen = c.unseen
        /\ d.unlisted = c.unlisted
    BY <1>1, <1>2, <1>4 DEF CallExact, Shaped, CallFields
  <2> HIDE DEF d
  <2>2. Own(i, d, inode) /\ Mine(d, entry, inode)
    BY <1>1, <1>2, <1>4, <2>1 DEF CallExact, Own, Mine, Succeeded, Searching, Copying
  <2>3. Reported(d)
    BY <1>1, <1>2, <1>4, <2>1 DEF CallExact, Reported, Succeeded, Searching
  <2>4. Searched(d, site)
    BY <1>1, <1>2, <1>4, <2>1 DEF CallExact, Searched, Passed, Succeeded, NotFound, Found
  <2> QED
    BY <1>1, <1>2, <1>4, <2>1, <2>2, <2>3, <2>4, QuietStep DEF CallExact, d
<1>5. CASE GiveUp(i, "IO_ERROR")
  BY <1>1, <1>5, GiveUpKeeps DEF c
<1> QED
  BY <1>3, <1>4, <1>5 DEF ReadChunk, c, more

\* Both handles are closed and the copy is reported, or it is rolled back.
LEMMA CloseKeeps == ASSUME InitIInv, NEW i \in Callers, CloseBoth(i) PROVE InitIInv'
<1> DEFINE c == call[i]
<1>1. c.at = "close" /\ CallExact(i, c, entry, inode, site) /\ UNCHANGED <<site, entry, inode>>
  BY DEF CloseBoth, At, InitIInv
<1> HIDE DEF c
<1>2. CASE Goto(i, "done", [c EXCEPT !.status = "OK", !.message = "OK", !.detail = {c.path}, !.open = {}])
  <2> DEFINE d == [[c EXCEPT !.status = "OK", !.message = "OK", !.detail = {c.path}, !.open = {}]
                 EXCEPT !.at = "done"]
  <2>1. /\ d.at = "done" /\ Shaped(d)
        /\ d.status = "OK" /\ d.path = c.path /\ d.names = c.names /\ d.made = c.made
        /\ d.open = {} /\ d.read = c.read /\ d.written = c.written /\ d.message = "OK"
        /\ d.detail = {c.path} /\ d.kept = c.kept /\ d.unseen = c.unseen
        /\ d.unlisted = c.unlisted
    BY <1>1 DEF CallExact, Shaped, CallFields
  <2> HIDE DEF d
  <2>2. Own(i, d, inode) /\ Mine(d, entry, inode)
    BY <1>1, <2>1 DEF CallExact, Own, Mine, Succeeded, Searching, Copying
  <2>3. Reported(d)
    BY <1>1, <2>1 DEF CallExact, Reported, Succeeded, Searching
  <2>4. Searched(d, site)
    BY <1>1, <2>1 DEF CallExact, Searched, Passed, Succeeded, NotFound, Found
  <2> QED
    BY <1>1, <1>2, <2>1, <2>2, <2>3, <2>4, QuietStep DEF CallExact, d
<1>3. ASSUME NEW still \in {{"source"}, {}},
             Goto(i, "rollback", [c EXCEPT !.status = "IO_ERROR", !.open = still])
      PROVE  InitIInv'
  <2> DEFINE r == [c EXCEPT !.status = "IO_ERROR", !.open = still]
  <2>1. /\ DOMAIN r = CallFields /\ r.status = "IO_ERROR"
        /\ \A f \in CallFields \ {"at", "status", "open"} : r[f] = c[f]
    BY <1>1 DEF CallExact, Shaped, CallFields
  <2>2. Goto(i, "rollback", r)
    BY <1>3
  <2> HIDE DEF r
  <2> QED
    BY <1>1, <2>1, <2>2, GiveUpStep DEF c
<1> QED
  BY <1>2, <1>3 DEF CloseBoth, c

\* A program that is killed leaves what it made, and no handle.
LEMMA KillKeeps == ASSUME InitIInv, NEW i \in Callers, Kill(i) PROVE InitIInv'
<1> DEFINE c == call[i]
<1>1. CallExact(i, c, entry, inode, site) /\ UNCHANGED <<site, entry, inode>>
  BY DEF Kill, InitIInv
<1> HIDE DEF c
<1>2. CASE Goto(i, "killed", [c EXCEPT !.open = {}])
  <2> DEFINE d == [[c EXCEPT !.open = {}] EXCEPT !.at = "killed"]
  <2>1. /\ d.at = "killed" /\ Shaped(d)
        /\ d.status = c.status /\ d.path = c.path /\ d.names = c.names /\ d.made = c.made
        /\ d.open = {} /\ d.read = c.read /\ d.written = c.written /\ d.message = c.message
        /\ d.detail = c.detail /\ d.kept = c.kept /\ d.unseen = c.unseen
        /\ d.unlisted = c.unlisted
    BY <1>1 DEF CallExact, Shaped, CallFields
  <2> HIDE DEF d
  <2>2. Own(i, d, inode) /\ Mine(d, entry, inode)
    BY <1>1, <2>1 DEF CallExact, Own, Mine, Succeeded, Searching, Copying
  <2>3. Reported(d)
    BY <1>1, <2>1 DEF CallExact, Reported, Succeeded, Searching
  <2>4. Searched(d, site)
    BY <1>1, <2>1 DEF CallExact, Searched, Passed, Succeeded, NotFound, Found
  <2> QED
    BY <1>1, <1>2, <2>1, <2>2, <2>3, <2>4, QuietStep DEF CallExact, d
<1> QED
  BY <1>2 DEF Kill, c

-----------------------------------------------------------------------------
(* Steps that change praktor.yml.                                             *)

\* Creating praktor.yml where there is none disturbs no other call.
LEMMA CreateKeepsOthers ==
    ASSUME InitIInv, NEW i \in Callers, NEW j \in Callers, entry = 0,
           NEW nodes, nodes = Append(inode, [by |-> i, units |-> 0])
    PROVE  CallExact(j, call[j], Len(nodes), nodes, site)
<1> DEFINE c == call[j]
<1>1. CallExact(j, c, entry, inode, site) /\ inode \in Inodes /\ entry = 0
  BY DEF InitIInv, FilesExact
<1> HIDE DEF c
<1>2. Len(nodes) = Len(inode) + 1 /\ Len(inode) \in Nat /\ \A k \in 1 .. Len(inode) : nodes[k] = inode[k]
  BY <1>1 DEF Inodes
<1>3. c.made = 0 \/ c.made \in 1 .. Len(inode)
  BY <1>1 DEF CallExact, Own
<1>4. Own(j, c, nodes)
  BY <1>1, <1>2, <1>3 DEF CallExact, Own
<1>5. ~(c.at \in Copying) /\ ~(c.at = "rollback" /\ c.made # 0) /\ ~Succeeded(c)
  BY <1>1 DEF CallExact, Own, Mine
<1>6. Mine(c, Len(nodes), nodes)
  BY <1>1, <1>2, <1>3, <1>5 DEF Mine
<1> QED
  BY <1>1, <1>4, <1>6 DEF CallExact, c

\* Two calls cannot both have made what praktor.yml is.
LEMMA MakerIsOne ==
    ASSUME InitIInv, NEW i \in Callers, NEW j \in Callers, call[i].made # 0, call[i].made = call[j].made
    PROVE  i = j
BY DEF InitIInv, CallExact, Own

\* Writing to what i made disturbs no other call.
LEMMA WriteKeepsOthers ==
    ASSUME InitIInv, NEW i \in Callers, NEW j \in Callers \ {i}, call[i].made # 0,
           NEW nodes, nodes \in Inodes, Len(nodes) = Len(inode),
           \A k \in 1 .. Len(inode) : nodes[k].by = inode[k].by,
           \A k \in (1 .. Len(inode)) \ {call[i].made} : nodes[k] = inode[k]
    PROVE  CallExact(j, call[j], entry, nodes, site)
<1> DEFINE c == call[j]
<1>1. CallExact(j, c, entry, inode, site)
  BY DEF InitIInv
<1>2. c.made # 0 => c.made \in (1 .. Len(inode)) \ {call[i].made} /\ nodes[c.made] = inode[c.made]
  BY <1>1, MakerIsOne DEF CallExact, Own
<1> HIDE DEF c
<1>3. Own(j, c, nodes)
  BY <1>1, <1>2 DEF CallExact, Own
<1>4. Mine(c, entry, nodes)
  BY <1>1, <1>2 DEF CallExact, Mine
<1> QED
  BY <1>1, <1>3, <1>4 DEF CallExact, c

\* Removing praktor.yml, which i made, disturbs no other call.
LEMMA RemovalKeepsOthers ==
    ASSUME InitIInv, NEW i \in Callers, NEW j \in Callers \ {i}, call[i].made # 0, entry = call[i].made
    PROVE  CallExact(j, call[j], 0, inode, site)
<1> DEFINE c == call[j]
<1>1. CallExact(j, c, entry, inode, site)
  BY DEF InitIInv
<1>2. c.made # 0 => entry # c.made
  BY <1>1, MakerIsOne
<1> HIDE DEF c
<1>3. Mine(c, 0, inode)
  BY <1>1, <1>2 DEF CallExact, Own, Mine
<1> QED
  BY <1>1, <1>3 DEF CallExact, c

\* A step of i that changes the files keeps the invariant when it keeps what
\* concerns i and disturbs no other call.
LEMMA FileStep ==
    ASSUME InitIInv, NEW i \in Callers, NEW place, NEW r, Goto(i, place, r), UNCHANGED site,
           FilesExact(entry', inode'), CallExact(i, [r EXCEPT !.at = place], entry', inode', site),
           \A j \in Callers \ {i} : CallExact(j, call[j], entry', inode', site)
    PROVE  InitIInv'
<1>1. /\ DOMAIN call' = Callers /\ call' = [j \in Callers |-> call'[j]]
      /\ call'[i] = [r EXCEPT !.at = place] /\ \A j \in Callers \ {i} : call'[j] = call[j]
  BY DEF Goto, InitIInv
<1>2. \A j \in Callers : CallExact(j, call'[j], entry', inode', site')
  BY <1>1
<1> QED
  BY <1>1, <1>2, InvariantNext

\* praktor.yml is created, is there already, or cannot be created.
LEMMA CreateKeeps == ASSUME InitIInv, NEW i \in Callers, CreateExclusive(i) PROVE InitIInv'
<1> DEFINE c == call[i]
<1>1. /\ c.at = "create" /\ CallExact(i, c, entry, inode, site) /\ UNCHANGED site
      /\ inode \in Inodes /\ FilesExact(entry, inode)
  BY DEF CreateExclusive, At, InitIInv, FilesExact
<1> HIDE DEF c
<1>2. CASE UNCHANGED <<entry, inode>> /\ (GiveUp(i, "IO_ERROR") \/ GiveUp(i, "ALREADY_EXISTS"))
  BY <1>1, <1>2, GiveUpKeeps DEF c
<1>3. ASSUME entry = 0, inode' = Append(inode, [by |-> i, units |-> 0]), entry' = Len(inode'),
             Goto(i, "read", [c EXCEPT !.made = Len(inode'), !.open = {"source", "destination"}])
      PROVE  InitIInv'
  <2>1. /\ Len(inode') = Len(inode) + 1 /\ Len(inode) \in Nat /\ inode' \in Inodes
        /\ inode'[Len(inode')] = [by |-> i, units |-> 0]
        /\ inode # <<>> => inode'[1] = inode[1]
        /\ inode = <<>> => Len(inode) = 0
    BY <1>1, <1>3 DEF Inodes, Node
  <2>2. FilesExact(entry', inode')
    BY <1>1, <1>3, <2>1, InitAssumption DEF FilesExact
  <2>3. c.written = 0 /\ c.read = 0
    BY <1>1 DEF CallExact, Shaped, Own, Searching
  <2>4. \A j \in Callers \ {i} : CallExact(j, call[j], entry', inode', site)
    BY <1>3, CreateKeepsOthers
  <2>5. CallExact(i, [[c EXCEPT !.made = Len(inode'), !.open = {"source", "destination"}] EXCEPT !.at = "read"], entry', inode', site)
    <3> DEFINE d == [[c EXCEPT !.made = Len(inode'), !.open = {"source", "destination"}] EXCEPT !.at = "read"]
    <3>1. /\ d.at = "read" /\ Shaped(d)
          /\ d.status = c.status /\ d.path = c.path /\ d.names = c.names
          /\ d.made = Len(inode') /\ d.open = {"source", "destination"} /\ d.read = c.read
          /\ d.written = c.written /\ d.message = c.message /\ d.detail = c.detail
          /\ d.kept = c.kept /\ d.unseen = c.unseen /\ d.unlisted = c.unlisted
      BY <1>1, <1>3, <2>1, <2>3 DEF CallExact, Shaped, CallFields
    <3> HIDE DEF d
    <3>2. Own(i, d, inode') /\ Mine(d, entry', inode')
      BY <1>1, <1>3, <2>1, <2>3, <3>1 DEF CallExact, Own, Mine, Succeeded, Searching, Copying
    <3>3. Reported(d)
      BY <1>1, <1>3, <2>1, <2>3, <3>1 DEF CallExact, Reported, Succeeded, Searching
    <3>4. Searched(d, site)
      BY <1>1, <1>3, <2>1, <2>3, <3>1 DEF CallExact, Searched, Passed, Succeeded, NotFound, Found
    <3>5. CallExact(i, d, entry', inode', site)
      BY <3>1, <3>2, <3>3, <3>4 DEF CallExact
    <3> QED
      BY <3>5 DEF d
  <2> QED
    BY <1>1, <1>3, <2>2, <2>4, <2>5, FileStep
<1> QED
  BY <1>2, <1>3 DEF CreateExclusive, c

\* Some of the chunk is written to what this call made, or nothing is.
LEMMA WriteKeeps == ASSUME InitIInv, NEW i \in Callers, WriteChunk(i) PROVE InitIInv'
<1> DEFINE c == call[i]
<1>1. /\ c.at = "write" /\ CallExact(i, c, entry, inode, site) /\ UNCHANGED <<site, entry>>
      /\ inode \in Inodes /\ FilesExact(entry, inode)
  BY DEF WriteChunk, At, InitIInv, FilesExact
<1> HIDE DEF c
<1>2. CASE UNCHANGED inode /\ GiveUp(i, "IO_ERROR")
  BY <1>1, <1>2, GiveUpKeeps DEF c
<1>4. ASSUME NEW n \in 1 .. c.read - c.written, inode' = [inode EXCEPT ![c.made].units = @ + n],
             \/ c.written + n = c.read /\ Goto(i, "read", [c EXCEPT !.written = @ + n])
             \/ c.written + n # c.read /\ Goto(i, "write", [c EXCEPT !.written = @ + n])
      PROVE  InitIInv'
  <2>1. /\ c.made \in 1 .. Len(inode) /\ c.made # 0 /\ inode[c.made].by = i /\ inode[c.made].units = c.written
        /\ c.written \in Nat /\ c.read \in Nat /\ n \in Nat /\ c.written + n <= c.read
    BY <1>1, <1>4, InitAssumption DEF CallExact, Shaped, Own, Copying
  <2>2. /\ inode' \in Inodes /\ Len(inode') = Len(inode) /\ (inode' # <<>> => inode # <<>>)
        /\ inode'[c.made].units = c.written + n
        /\ \A k \in 1 .. Len(inode) : inode'[k].by = inode[k].by
        /\ \A k \in (1 .. Len(inode)) \ {c.made} : inode'[k] = inode[k]
    <3>1. /\ DOMAIN inode = 1 .. Len(inode) /\ Len(inode) \in Nat
          /\ \A k \in 1 .. Len(inode) : inode[k] \in Node
      BY <1>1 DEF Inodes
    <3> DEFINE new == [inode[c.made] EXCEPT !.units = @ + n]
    <3>2. new \in Node /\ new.by = inode[c.made].by /\ new.units = c.written + n
      BY <2>1, <3>1 DEF Node
    <3>3. inode' = [inode EXCEPT ![c.made] = new]
      BY <1>4
    <3> HIDE DEF new
    <3>4. inode' \in Inodes /\ Len(inode') = Len(inode)
      BY <1>1, <2>1, <3>1, <3>2, <3>3 DEF Inodes
    <3>5. \A k \in 1 .. Len(inode) : inode'[k] = IF k = c.made THEN new ELSE inode[k]
      BY <3>1, <3>3
    <3>6. inode' # <<>> => inode # <<>>
      BY <2>1
    <3> QED
      BY <2>1, <3>2, <3>4, <3>5, <3>6
  <2>3. FilesExact(entry', inode')
    BY <1>1, <2>2 DEF FilesExact, Inodes
  <2>4. \A j \in Callers \ {i} : CallExact(j, call[j], entry', inode', site)
    BY <1>1, <2>1, <2>2, WriteKeepsOthers DEF c
  <2>5. ASSUME c.written + n = c.read, Goto(i, "read", [c EXCEPT !.written = @ + n]) PROVE InitIInv'
    <3>1. CallExact(i, [[c EXCEPT !.written = @ + n] EXCEPT !.at = "read"], entry, inode', site)
      <4> DEFINE d == [[c EXCEPT !.written = @ + n] EXCEPT !.at = "read"]
      <4>1. /\ d.at = "read" /\ Shaped(d)
            /\ d.status = c.status /\ d.path = c.path /\ d.names = c.names /\ d.made = c.made
            /\ d.open = c.open /\ d.read = c.read /\ d.written = c.written + n
            /\ d.message = c.message /\ d.detail = c.detail /\ d.kept = c.kept
            /\ d.unseen = c.unseen /\ d.unlisted = c.unlisted
        BY <1>1, <1>4, <2>1, <2>2, <2>5 DEF CallExact, Shaped, CallFields
      <4> HIDE DEF d
      <4>2. Own(i, d, inode') /\ Mine(d, entry, inode')
        BY <1>1, <1>4, <2>1, <2>2, <2>5, <4>1 DEF CallExact, Own, Mine, Succeeded, Searching, Copying
      <4>3. Reported(d)
        BY <1>1, <1>4, <2>1, <2>2, <2>5, <4>1 DEF CallExact, Reported, Succeeded, Searching
      <4>4. Searched(d, site)
        BY <1>1, <1>4, <2>1, <2>2, <2>5, <4>1 DEF CallExact, Searched, Passed, Succeeded, NotFound, Found
      <4>5. CallExact(i, d, entry, inode', site)
        BY <4>1, <4>2, <4>3, <4>4 DEF CallExact
      <4> QED
        BY <4>5 DEF d
    <3> QED
      BY <1>1, <1>2, <2>5, <2>3, <2>4, <3>1, FileStep
  <2>6. ASSUME c.written + n # c.read, Goto(i, "write", [c EXCEPT !.written = @ + n]) PROVE InitIInv'
    <3>1. CallExact(i, [[c EXCEPT !.written = @ + n] EXCEPT !.at = "write"], entry, inode', site)
      <4> DEFINE d == [[c EXCEPT !.written = @ + n] EXCEPT !.at = "write"]
      <4>1. /\ d.at = "write" /\ Shaped(d)
            /\ d.status = c.status /\ d.path = c.path /\ d.names = c.names /\ d.made = c.made
            /\ d.open = c.open /\ d.read = c.read /\ d.written = c.written + n
            /\ d.message = c.message /\ d.detail = c.detail /\ d.kept = c.kept
            /\ d.unseen = c.unseen /\ d.unlisted = c.unlisted
        BY <1>1, <1>4, <2>1, <2>2, <2>6 DEF CallExact, Shaped, CallFields
      <4> HIDE DEF d
      <4>2. Own(i, d, inode') /\ Mine(d, entry, inode')
        BY <1>1, <1>4, <2>1, <2>2, <2>6, <4>1 DEF CallExact, Own, Mine, Succeeded, Searching, Copying
      <4>3. Reported(d)
        BY <1>1, <1>4, <2>1, <2>2, <2>6, <4>1 DEF CallExact, Reported, Succeeded, Searching
      <4>4. Searched(d, site)
        BY <1>1, <1>4, <2>1, <2>2, <2>6, <4>1 DEF CallExact, Searched, Passed, Succeeded, NotFound, Found
      <4>5. CallExact(i, d, entry, inode', site)
        BY <4>1, <4>2, <4>3, <4>4 DEF CallExact
      <4> QED
        BY <4>5 DEF d
    <3> QED
      BY <1>1, <1>2, <2>6, <2>3, <2>4, <3>1, FileStep
  <2> QED
    BY <1>4, <2>5, <2>6
<1> QED
  BY <1>2, <1>4 DEF WriteChunk, c

\* What this call made, and nothing else, is removed.
LEMMA RollbackKeeps == ASSUME InitIInv, NEW i \in Callers, Rollback(i) PROVE InitIInv'
<1> DEFINE c == call[i]
<1>1. /\ c.at = "rollback" /\ CallExact(i, c, entry, inode, site) /\ UNCHANGED <<site, inode>>
      /\ inode \in Inodes /\ FilesExact(entry, inode)
  BY DEF Rollback, At, InitIInv, FilesExact, RollbackOf
<1> HIDE DEF c
<1>2. ASSUME c.made # 0, entry' = 0, Goto(i, "failing", [c EXCEPT !.open = {}]) PROVE InitIInv'
  <2>1. entry = c.made /\ c.made \in 1 .. Len(inode) /\ inode[c.made].by = i /\ Len(inode) \in Nat
    BY <1>1, <1>2 DEF CallExact, Own, Mine, Inodes
  <2>2. FilesExact(entry', inode')
    BY <1>1, <1>2, <2>1, InitAssumption DEF FilesExact
  <2>3. \A j \in Callers \ {i} : CallExact(j, call[j], entry', inode', site)
    BY <1>1, <1>2, <2>1, RemovalKeepsOthers DEF c
  <2>4. CallExact(i, [[c EXCEPT !.open = {}] EXCEPT !.at = "failing"], entry', inode', site)
    <3> DEFINE d == [[c EXCEPT !.open = {}] EXCEPT !.at = "failing"]
    <3>1. /\ d.at = "failing" /\ Shaped(d)
          /\ d.status = c.status /\ d.path = c.path /\ d.names = c.names /\ d.made = c.made
          /\ d.open = {} /\ d.read = c.read /\ d.written = c.written /\ d.message = c.message
          /\ d.detail = c.detail /\ d.kept = c.kept /\ d.unseen = c.unseen
          /\ d.unlisted = c.unlisted
      BY <1>1, <1>2, <2>1 DEF CallExact, Shaped, CallFields
    <3> HIDE DEF d
    <3>2. Own(i, d, inode') /\ Mine(d, entry', inode')
      BY <1>1, <1>2, <2>1, <3>1 DEF CallExact, Own, Mine, Succeeded, Searching, Copying
    <3>3. Reported(d)
      BY <1>1, <1>2, <2>1, <3>1 DEF CallExact, Reported, Succeeded, Searching
    <3>4. Searched(d, site)
      BY <1>1, <1>2, <2>1, <3>1 DEF CallExact, Searched, Passed, Succeeded, NotFound, Found
    <3>5. CallExact(i, d, entry', inode', site)
      BY <3>1, <3>2, <3>3, <3>4 DEF CallExact
    <3> QED
      BY <3>5 DEF d
  <2> QED
    BY <1>1, <1>2, <2>2, <2>3, <2>4, FileStep
<1>3. ASSUME UNCHANGED entry, Goto(i, "failing", [c EXCEPT !.open = {}, !.kept = TRUE]) PROVE InitIInv'
  <2> DEFINE d == [[c EXCEPT !.open = {}, !.kept = TRUE] EXCEPT !.at = "failing"]
  <2>1. /\ d.at = "failing" /\ Shaped(d)
        /\ d.status = c.status /\ d.path = c.path /\ d.names = c.names /\ d.made = c.made
        /\ d.open = {} /\ d.read = c.read /\ d.written = c.written /\ d.message = c.message
        /\ d.detail = c.detail /\ d.kept = TRUE /\ d.unseen = c.unseen
        /\ d.unlisted = c.unlisted
    BY <1>1, <1>3 DEF CallExact, Shaped, CallFields
  <2> HIDE DEF d
  <2>2. Own(i, d, inode) /\ Mine(d, entry, inode)
    BY <1>1, <1>3, <2>1 DEF CallExact, Own, Mine, Succeeded, Searching, Copying
  <2>3. Reported(d)
    BY <1>1, <1>3, <2>1 DEF CallExact, Reported, Succeeded, Searching
  <2>4. Searched(d, site)
    BY <1>1, <1>3, <2>1 DEF CallExact, Searched, Passed, Succeeded, NotFound, Found
  <2> QED
    BY <1>1, <1>3, <2>1, <2>2, <2>3, <2>4, QuietStep DEF CallExact, d
<1>4. ASSUME UNCHANGED entry, c.made = 0, Goto(i, "failing", [c EXCEPT !.open = {}]) PROVE InitIInv'
  <2> DEFINE d == [[c EXCEPT !.open = {}] EXCEPT !.at = "failing"]
  <2>1. /\ d.at = "failing" /\ Shaped(d)
        /\ d.status = c.status /\ d.path = c.path /\ d.names = c.names /\ d.made = c.made
        /\ d.open = {} /\ d.read = c.read /\ d.written = c.written /\ d.message = c.message
        /\ d.detail = c.detail /\ d.kept = c.kept /\ d.unseen = c.unseen
        /\ d.unlisted = c.unlisted
    BY <1>1, <1>4 DEF CallExact, Shaped, CallFields
  <2> HIDE DEF d
  <2>2. Own(i, d, inode) /\ Mine(d, entry, inode)
    BY <1>1, <1>4, <2>1 DEF CallExact, Own, Mine, Succeeded, Searching, Copying
  <2>3. Reported(d)
    BY <1>1, <1>4, <2>1 DEF CallExact, Reported, Succeeded, Searching
  <2>4. Searched(d, site)
    BY <1>1, <1>4, <2>1 DEF CallExact, Searched, Passed, Succeeded, NotFound, Found
  <2> QED
    BY <1>1, <1>4, <2>1, <2>2, <2>3, <2>4, QuietStep DEF CallExact, d
<1> QED
  BY <1>2, <1>3, <1>4 DEF Rollback, RollbackOf, c

-----------------------------------------------------------------------------
(* The theorem.                                                               *)

\* Every step keeps the invariant.
LEMMA InitStepKeeps == ASSUME InitIInv, [InitNext]_initVars PROVE InitIInv'
<1>1. CASE UNCHANGED initVars
  BY <1>1, InvariantNext DEF initVars, InitIInv
<1>2. ASSUME NEW i \in Callers, InitStep(i) PROVE InitIInv'
  <2>1. CASE StartCall(i)
    BY <2>1, StartKeeps
  <2>2. CASE CheckExisting(i)
    BY <2>2, CheckKeeps
  <2>3. CASE Report(i)
    BY <2>3, ReportKeeps
  <2>4. CASE init_find_template(i)
    BY <2>4, FindKeeps
  <2>5. CASE init_discover_directory(i)
    BY <2>5, DiscoverKeeps
  <2>6. CASE PublishNames(i)
    BY <2>6, PublishNamesKeeps
  <2>7. CASE Announce(i)
    BY <2>7, AnnounceKeeps
  <2>8. CASE OpenSource(i)
    BY <2>8, OpenKeeps
  <2>9. CASE CreateExclusive(i)
    BY <2>9, CreateKeeps
  <2>10. CASE ReadChunk(i)
    BY <2>10, ReadKeeps
  <2>11. CASE WriteChunk(i)
    BY <2>11, WriteKeeps
  <2>12. CASE CloseBoth(i)
    BY <2>12, CloseKeeps
  <2>13. CASE Rollback(i)
    BY <2>13, RollbackKeeps
  <2>14. CASE Kill(i)
    BY <2>14, KillKeeps
  <2> QED
    BY <1>2, <2>1, <2>2, <2>3, <2>4, <2>5, <2>6, <2>7, <2>8, <2>9, <2>10, <2>11, <2>12, <2>13, <2>14 DEF InitStep
<1> QED
  BY <1>1, <1>2 DEF InitNext

\* It holds when nobody has begun.
LEMMA InitStarts == InitInit => InitIInv
<1> SUFFICES ASSUME InitInit PROVE InitIInv
  OBVIOUS
<1>1. inode \in Inodes /\ entry = Len(inode)
  <2>1. [by |-> "owner", units |-> TemplateUnits] \in Node
    BY InitAssumption DEF Node
  <2>2. <<>> \in Inodes /\ <<[by |-> "owner", units |-> TemplateUnits]>> \in Inodes
    BY <2>1 DEF Inodes
  <2> QED
    BY <2>2 DEF InitInit
<1>2. FilesExact(entry, inode)
  BY <1>1 DEF InitInit, FilesExact, Inodes
<1>3. ASSUME NEW i \in Callers PROVE CallExact(i, NewInit, entry, inode, site)
  <2>1. Shaped(NewInit)
    BY InitAssumption DEF NewInit, Shaped, CallFields
  <2>2. Own(i, NewInit, inode) /\ Mine(NewInit, entry, inode) /\ Reported(NewInit)
    BY DEF NewInit, Own, Mine, Reported, Searching, Copying, Succeeded
  <2>3. Searched(NewInit, site)
    <3>1. /\ NewInit.at = "start" /\ NewInit.path = 1 /\ NewInit.unseen = {}
          /\ NewInit.names = {}
      BY DEF NewInit
    <3>2. ~Succeeded(NewInit) /\ ~NotFound(NewInit) /\ NewInit.at \notin Found
      BY <3>1 DEF Succeeded, NotFound, Found
    <3> HIDE DEF NewInit
    <3> QED
      BY <3>1, <3>2 DEF Searched
  <2> QED
    BY <2>1, <2>2, <2>3 DEF CallExact
<1>4. DOMAIN call = Callers /\ call = [i \in Callers |-> call[i]] /\ \A i \in Callers : call[i] = NewInit
  BY DEF InitInit
<1> QED
  BY <1>2, <1>3, <1>4 DEF InitIInv

\* What the search knows about the directories is what FirstMatch says.
LEMMA SearchFinds ==
    ASSUME NEW i \in Callers, Shaped(call[i]), Searched(call[i], site)
    PROVE  /\ Succeeded(call[i]) => FirstMatch(i) = {call[i].path}
           /\ NotFound(call[i]) => FirstMatch(i) = {}
<1> DEFINE c == call[i]
           has == {p \in (1 .. 3) \ c.unseen : Stat(p)}
<1>1. \A q \in 1 .. 3 : Passed(q, c, site) <=> q \notin has
  BY DEF Passed, Stat, Lists
<1>2. has \subseteq 1 .. 3 /\ c.path \in 1 .. 3
  BY DEF Shaped
<1>3. FirstMatch(i) = {p \in has : \A q \in has : p <= q}
  BY DEF FirstMatch
<1>4. ASSUME Succeeded(c) PROVE c.path \in has /\ \A q \in has : ~(q < c.path)
  BY <1>1, <1>2, <1>4 DEF Searched
<1>5. ASSUME NotFound(c) PROVE has = {}
  BY <1>1, <1>2, <1>5 DEF Searched
<1> HIDE DEF c, has
<1>6. ASSUME Succeeded(c) PROVE {p \in has : \A q \in has : p <= q} = {c.path}
  <2>1. \A q \in has : c.path <= q
    BY <1>2, <1>4, <1>6
  <2>2. ASSUME NEW p \in has, \A q \in has : p <= q PROVE p = c.path
    BY <1>2, <1>4, <1>6, <2>2
  <2> QED
    BY <1>4, <1>6, <2>1, <2>2
<1>7. ASSUME NotFound(c) PROVE {p \in has : \A q \in has : p <= q} = {}
  BY <1>5, <1>7
<1> QED
  BY <1>3, <1>6, <1>7 DEF c

\* The invariant says what InitializesOnce promises.
LEMMA InitPromises == InitIInv => InitializesOnce
<1> SUFFICES ASSUME InitIInv PROVE InitializesOnce
  OBVIOUS
<1>1. (inode # <<>> /\ inode[1].by = "owner") => entry = 1 /\ Len(inode) = 1
  BY DEF InitIInv, FilesExact
<1>2. ASSUME NEW i \in Callers
      PROVE  /\ (At(i, "done") /\ call[i].status = "OK") =>
                 /\ entry = call[i].made
                 /\ inode[entry] = [by |-> i, units |-> TemplateUnits]
                 /\ call[i].detail = FirstMatch(i)
                 /\ call[i].message = "OK"
             /\ (At(i, "done") /\ call[i].status # "OK") =>
                 /\ call[i].made = 0 \/ entry # call[i].made \/ call[i].kept
                 /\ call[i].message \in {call[i].status, "none"}
             /\ (At(i, "done") /\ call[i].status = "TEMPLATE_NOT_FOUND") =>
                 call[i].detail = UNION {Lists(p) \ call[i].unlisted[p] : p \in 1 .. 3} /\ FirstMatch(i) = {}
             /\ At(i, "done") => call[i].open = {}
  <2> DEFINE c == call[i]
  <2>1. CallExact(i, c, entry, inode, site) /\ inode \in Inodes
    BY DEF InitIInv, FilesExact
  <2>2. /\ Succeeded(c) => FirstMatch(i) = {c.path}
        /\ NotFound(c) => FirstMatch(i) = {}
    BY <2>1, SearchFinds DEF CallExact
  <2>3. ASSUME Succeeded(c) PROVE inode[entry] = [by |-> i, units |-> TemplateUnits]
    <3>1. /\ entry = c.made /\ entry \in 1 .. Len(inode) /\ inode[entry].by = i
          /\ inode[entry].units = TemplateUnits
      BY <2>1, <2>3 DEF CallExact, Own, Mine
    <3>2. inode[entry] \in Node
      BY <2>1, <3>1 DEF Inodes
    <3> QED
      BY <3>1, <3>2 DEF Node
  <2>4. Listed(1 .. 3, c.unlisted, site) = UNION {Lists(p) \ c.unlisted[p] : p \in 1 .. 3}
    BY DEF Listed, Lists
  <2>5. NotFound(c) => c.detail = UNION {Lists(p) \ c.unlisted[p] : p \in 1 .. 3}
    BY <2>1, <2>4 DEF CallExact, Searched
  <2> QED
    BY <2>1, <2>2, <2>3, <2>5 DEF CallExact, Mine, Reported, Succeeded, NotFound, At
<1> QED
  BY <1>1, <1>2 DEF InitializesOnce

\* However many programs initialise a directory, whatever its templates are and
\* however often calls fail or programs are killed (praktor_init_project()):
\* praktor.yml is made once, whole, from the first template, and only its maker
\* removes it.
THEOREM InitializesOnceAlways == InitSpec => []InitializesOnce
<1>1. InitInit => InitIInv
  BY InitStarts
<1>2. InitIInv /\ [InitNext]_initVars => InitIInv'
  BY InitStepKeeps
<1>3. InitIInv => InitializesOnce
  BY InitPromises
<1> QED
  BY <1>1, <1>2, <1>3, PTL DEF InitSpec
=============================================================================
