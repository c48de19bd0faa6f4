---------------------------- MODULE ProjectInit ----------------------------
(* praktor_init_project() (util/praktor_init.c): several programs initialise  *)
(* the same working directory at once.  A call checks its arguments, looks    *)
(* for praktor.yml, searches three template directories, copies the template  *)
(* into an exclusively created praktor.yml and, when the copy fails, removes  *)
(* what it created.  Every call of the file system is a step that may fail;   *)
(* a program may be killed between any two.                                   *)
(* A file is an inode: who created it and the units of text it holds.  The    *)
(* directory entry praktor.yml names an inode or none (0).                    *)
EXTENDS Integers, Sequences, FiniteSetsExt

CONSTANTS
    Callers,            \* the programs that initialise the directory
    Sites,              \* the contents of the three template directories
    TemplateUnits,      \* the length of a template, in units of a write
    ChunkUnits,         \* PRAKTOR_INIT_COPY_CHUNK_BYTES, in the same unit
    MaxNames,           \* PRAKTOR_INIT_MAX_DISCOVERED_TEMPLATES
    MaxFaults           \* bound of the calls that fail and of the programs killed

ASSUME InitAssumption ==
    /\ {TemplateUnits, ChunkUnits, MaxNames} \subseteq Nat \ {0}
    /\ MaxFaults \in Nat
    /\ "owner" \notin Callers

VARIABLES
    site,               \* the template directories, which nobody changes
    entry,              \* the inode that praktor.yml names, 0 when there is none
    inode,              \* the files created so far
    call,               \* the call of each program
    faults              \* calls that failed and programs killed

initVars == <<site, entry, inode, call, faults>>

\* A call: where it is, its status, the directory it looks at or copies from,
\* the names discovered, the inode it created, the handles it holds, the units
\* it read and wrote, the result strings it published, whether its removal of
\* praktor.yml failed, the directories in which it could not look for the
\* template, and the templates of each directory that it could not look at.
NewInit ==
    [at |-> "start", status |-> "INVALID_ARGUMENT", path |-> 1, names |-> {}, made |-> 0,
     open |-> {}, read |-> 0, written |-> 0, message |-> "none", detail |-> {}, kept |-> FALSE,
     unseen |-> {}, unlisted |-> [p \in 1 .. 3 |-> {}]]

\* A directory either is missing, or lists the templates in it; the wanted one
\* is "wanted", as a regular file or (in dirs) as a directory of that name.
Lists(p) == site[p].names

Stat(p) == "wanted" \in Lists(p) \/ site[p].dir

At(i, place) == call[i].at = place

\* The call goes on at a place, as the record c.
Goto(i, place, c) == call' = [call EXCEPT ![i] = [c EXCEPT !.at = place]]

\* finished: of praktor_init_project(), which frees the paths and gives every
\* status without a message its own.
Leave(i, status) ==
    \E message \in {status, "none"} :
        /\ message = "none" => faults < MaxFaults
        /\ faults' = faults + (IF message = "none" THEN 1 ELSE 0)
        /\ Goto(i, "done", [call[i] EXCEPT !.status = status, !.message = message])

Fault == faults < MaxFaults /\ faults' = faults + 1

\* A call that fails ends the whole, with the fault that made it fail.
CallFails(i, status) == Fault /\ Goto(i, "failing", [call[i] EXCEPT !.status = status])

-----------------------------------------------------------------------------
\* The arguments and the two directories of the call.  A result that holds
\* strings is refused without one, a missing name with one.
StartCall(i) ==
    /\ At(i, "start")
    /\ \/ /\ \E message \in {"INVALID_ARGUMENT", "none"} : Goto(i, "done", [call[i] EXCEPT !.message = message])
          /\ UNCHANGED faults
       \/ Fault /\ Goto(i, "done", [call[i] EXCEPT !.status = "NO_MEMORY"])
       \/ CallFails(i, "NO_MEMORY")
       \/ Goto(i, "check", call[i]) /\ UNCHANGED faults
    /\ UNCHANGED <<site, entry, inode>>

\* The working directory is opened as a root and asked for praktor.yml.
CheckExisting(i) ==
    /\ At(i, "check")
    /\ \/ CallFails(i, "IO_ERROR")
       \/ entry # 0 /\ Leave(i, "ALREADY_EXISTS")
       \/ entry = 0 /\ Goto(i, "find", call[i]) /\ UNCHANGED faults
    /\ UNCHANGED <<site, entry, inode>>

\* A failure before the copy, or after its rollback, is reported.
Report(i) ==
    /\ At(i, "failing")
    /\ Leave(i, call[i].status)
    /\ UNCHANGED <<site, entry, inode>>

\* init_find_template(): the first directory that has the template.  One that
\* cannot be looked at counts as one that has none.
init_find_template(i) ==
    LET p == call[i].path
        Pass(c) == IF p < 3 THEN Goto(i, "find", [c EXCEPT !.path = p + 1])
                   ELSE Goto(i, "discover", [c EXCEPT !.path = 1])
    IN
    /\ At(i, "find")
    /\ \/ CallFails(i, "NO_MEMORY")
       \/ Stat(p) /\ Fault /\ Pass([call[i] EXCEPT !.unseen = @ \cup {p}])
       \/ Stat(p) /\ Goto(i, "announce", call[i]) /\ UNCHANGED faults
       \/ ~Stat(p) /\ Pass(call[i]) /\ UNCHANGED faults
    /\ UNCHANGED <<site, entry, inode>>

\* init_names_add() for every template of a directory: a name is kept once, and
\* the names are bounded.  An entry that cannot be looked at is passed over, and
\* so is a directory, with all it has; what is missed so in one directory counts
\* as one fault.
init_discover_directory(i) ==
    LET p == call[i].path
        On(c) == IF p < 3 THEN Goto(i, "discover", [c EXCEPT !.path = p + 1]) ELSE Goto(i, "missing", c)
    IN
    /\ At(i, "discover")
    /\ \/ site[p].there /\ CallFails(i, "IO_ERROR")
       \/ CallFails(i, "NO_MEMORY")
       \/ \E missed \in SUBSET Lists(p) :
            LET names == call[i].names \cup (Lists(p) \ missed) IN
            /\ IF missed = {} THEN UNCHANGED faults ELSE Fault
            /\ IF Cardinality(names) > MaxNames
               THEN Goto(i, "failing", [call[i] EXCEPT !.status = "LIMIT_EXCEEDED"])
               ELSE On([call[i] EXCEPT !.names = names, !.unlisted[p] = missed])
    /\ UNCHANGED <<site, entry, inode>>

\* The names are joined and published with the message, or neither is.
PublishNames(i) ==
    /\ At(i, "missing")
    /\ \/ CallFails(i, "NO_MEMORY")
       \/ /\ Goto(i, "done", [call[i] EXCEPT !.status = "TEMPLATE_NOT_FOUND", !.message = "TEMPLATE_NOT_FOUND",
                                             !.detail = call[i].names])
          /\ UNCHANGED faults
    /\ UNCHANGED <<site, entry, inode>>

\* The result strings exist before the copy begins, so that a copy that was
\* made is always reported as one.
Announce(i) ==
    /\ At(i, "announce")
    /\ \/ CallFails(i, "NO_MEMORY")
       \/ Goto(i, "open", call[i]) /\ UNCHANGED faults
    /\ UNCHANGED <<site, entry, inode>>

-----------------------------------------------------------------------------
\* init_copy_exclusive(): the root and the template are opened.
OpenSource(i) ==
    /\ At(i, "open")
    /\ \/ CallFails(i, "IO_ERROR")
       \/ Goto(i, "create", [call[i] EXCEPT !.open = {"source"}]) /\ UNCHANGED faults
    /\ UNCHANGED <<site, entry, inode>>

\* The copy gives up: finished: of init_copy_exclusive() closes what is open.
GiveUp(i, status) == Goto(i, "rollback", [call[i] EXCEPT !.status = status])

\* praktor.yml is created exclusively.
CreateExclusive(i) ==
    /\ At(i, "create")
    /\ \/ Fault /\ GiveUp(i, "IO_ERROR") /\ UNCHANGED <<entry, inode>>
       \/ entry # 0 /\ GiveUp(i, "ALREADY_EXISTS") /\ UNCHANGED <<entry, inode, faults>>
       \/ /\ entry = 0
          /\ inode' = Append(inode, [by |-> i, units |-> 0])
          /\ entry' = Len(inode')
          /\ Goto(i, "read", [call[i] EXCEPT !.made = Len(inode'), !.open = {"source", "destination"}])
          /\ UNCHANGED faults
    /\ UNCHANGED site

\* A chunk of the template, which cannot be read when it is a directory.
ReadChunk(i) ==
    LET n == call[i].read IN
    /\ At(i, "read")
    /\ \/ Fault /\ GiveUp(i, "IO_ERROR")
       \/ site[call[i].path].dir /\ GiveUp(i, "IO_ERROR") /\ UNCHANGED faults
       \/ /\ ~site[call[i].path].dir
          /\ IF n = TemplateUnits THEN Goto(i, "close", call[i])
             ELSE Goto(i, "write", [call[i] EXCEPT !.read = Min({n + ChunkUnits, TemplateUnits})])
          /\ UNCHANGED faults
    /\ UNCHANGED <<site, entry, inode>>

\* A write takes some of the chunk; the rest is written again.
WriteChunk(i) ==
    /\ At(i, "write")
    /\ \/ Fault /\ GiveUp(i, "IO_ERROR") /\ UNCHANGED inode
       \/ \E n \in 1 .. call[i].read - call[i].written :
            /\ inode' = [inode EXCEPT ![call[i].made].units = @ + n]
            /\ Goto(i, IF call[i].written + n = call[i].read THEN "read" ELSE "write",
                    [call[i] EXCEPT !.written = @ + n])
            /\ UNCHANGED faults
    /\ UNCHANGED <<site, entry>>

\* The destination, then the template, is closed; the copy is made when both
\* closed.  A close that fails has closed its handle too.
CloseBoth(i) ==
    /\ At(i, "close")
    /\ \/ \E still \in {{"source"}, {}} :
            Fault /\ Goto(i, "rollback", [call[i] EXCEPT !.status = "IO_ERROR", !.open = still])
       \/ /\ Goto(i, "done", [call[i] EXCEPT !.status = "OK", !.message = "OK",
                                             !.detail = {call[i].path}, !.open = {}])
          /\ UNCHANGED faults
    /\ UNCHANGED <<site, entry, inode>>

RollbackOf(i, removes) ==
    /\ At(i, "rollback")
    /\ \/ /\ removes
          /\ entry' = 0
          /\ Goto(i, "failing", [call[i] EXCEPT !.open = {}])
          /\ UNCHANGED faults
       \/ /\ removes /\ Fault
          /\ Goto(i, "failing", [call[i] EXCEPT !.open = {}, !.kept = TRUE])
          /\ UNCHANGED entry
       \/ ~removes /\ Goto(i, "failing", [call[i] EXCEPT !.open = {}]) /\ UNCHANGED <<entry, faults>>
    /\ UNCHANGED <<site, inode>>

\* Mutant: a failed copy leaves what it has written.
RollbackNever(i) == RollbackOf(i, FALSE)

\* What is open is closed, and praktor.yml is removed, by its name, when this
\* call created it.  The removal may fail, and nobody looks.
Rollback(i) == RollbackOf(i, call[i].made # 0)

\* The program is killed: the system closes its handles.
Kill(i) ==
    /\ call[i].at \notin {"done", "killed"}
    /\ Fault
    /\ Goto(i, "killed", [call[i] EXCEPT !.open = {}])
    /\ UNCHANGED <<site, entry, inode>>

-----------------------------------------------------------------------------
\* The directory is new or has a praktor.yml of its own.
InitInit ==
    /\ site \in Sites
    /\ inode \in {<<>>, <<[by |-> "owner", units |-> TemplateUnits]>>}
    /\ entry = Len(inode)
    /\ call = [i \in Callers |-> NewInit]
    /\ faults = 0

InitStep(i) ==
    \/ StartCall(i) \/ CheckExisting(i) \/ Report(i)
    \/ init_find_template(i) \/ init_discover_directory(i) \/ PublishNames(i) \/ Announce(i)
    \/ OpenSource(i) \/ CreateExclusive(i) \/ ReadChunk(i) \/ WriteChunk(i) \/ CloseBoth(i)
    \/ Rollback(i) \/ Kill(i)

InitNext == \E i \in Callers : InitStep(i)

InitSpec == InitInit /\ [][InitNext]_initVars

-----------------------------------------------------------------------------
\* The first directory that has something of the template's name, of those that
\* call i could look at.
FirstMatch(i) ==
    LET has == {p \in (1 .. 3) \ call[i].unseen : Stat(p)} IN {p \in has : \A q \in has : p <= q}

\* However many programs initialise a directory at once, and wherever their
\* copies fail or they are killed: a praktor.yml that was there is never
\* replaced; a call that reports success made praktor.yml, whole, from the
\* first template that it could look at, and nobody removed or changed it since;
\* a call that fails leaves neither a file of its own (unless its removal
\* failed) nor a handle; a missing template is reported with exactly the
\* templates there are in the three directories, but for those whose entry or
\* directory the call could not look at, which it passes over in silence
\* (init_copy_exclusive(), init_discover_directory(); util/praktor_init.h).
InitializesOnce ==
    /\ (inode # <<>> /\ inode[1].by = "owner") => entry = 1 /\ Len(inode) = 1
    /\ \A i \in Callers :
        /\ (At(i, "done") /\ call[i].status = "OK") =>
            /\ entry = call[i].made
            /\ inode[entry] = [by |-> i, units |-> TemplateUnits]
            /\ call[i].detail = FirstMatch(i)
            /\ call[i].message = "OK"
        /\ (At(i, "done") /\ call[i].status # "OK") =>
            /\ call[i].made = 0 \/ entry # call[i].made \/ call[i].kept
            /\ call[i].message \in {call[i].status, "none"}
        /\ (At(i, "done") /\ call[i].status = "TEMPLATE_NOT_FOUND") =>
            call[i].detail = UNION {Lists(p) \ call[i].unlisted[p] : p \in 1 .. 3} /\ FirstMatch(i) = {}
        /\ At(i, "done") => call[i].open = {}
=============================================================================
