# Formal models of praktor

TLA+ models of praktor's native workflow runtime, of the readers that turn a
document into what the runtime executes, of its expressions, of project
initialisation and of the parser generator in `tools/lemon`; the TLC
configurations that check them on small instances, and TLAPS proofs of the
central properties for every size.
`PROJECT.json` ties each definition to the lines it models.

## The system and its inventory

A call of `praktor_runtime_execute_yaml()` admits a workflow, then runs its
tasks in dependency order. The parts that hold state and interact:

| Part | State | Operations that change it | Interacts with |
|---|---|---|---|
| dependency graph (`workflow_dependencies.c`) | names, edge list | `create` (admit or refuse) | read by DAG state, registry |
| DAG state (`workflow_dag_state.c`) | phase and open edges per task, active, completed, terminal reason | `claim_ready`, `finish`, `refuse`, `stop` | owner loop, settlement |
| task registry (`workflow_task_registry.c`) | state, typed outputs, reason, revision per task; prepared groups | `start`, `complete`, `fail`, `skip`, `set_output`, `merge_outputs`, prepare/publish/discard group | settlement, runtime |
| value store (`value_store.c`) | bounded text map; transactions | set, erase, clone, begin, set/erase in a transaction, commit, group commit, abort | settlement, runtime |
| cohort settlement (`workflow_owner_settlement.c`, `workflow_parallel_process_guard.c`, `workflow_parallel_commit.c`) | recovery gate of a cohort | close admission, drain, publish, abort | all of the above, worker callbacks, process retainers |
| process driver (`process_driver.c`) | pipes, capture, requests in flight | start, tick, terminate, close, release | I/O library, retainer |
| process worker (`process_worker.c`) | thread, handle, requested cancellation | start, cancel, destroy, the thread's own steps | driver, other threads |
| process control (`process_control.c`, `process_native.c`) | one execution | query, start, stop, restart with deadlines | processes of the system |
| service control (`service_control.c`) | one execution | query, start, stop, restart with one deadline | service manager, other administrators |
| session (`session.c`, `session_values.c`, `session_controls.c`) | per node: flags, cached texts, process driver, owner of the activation | tick, reset, cancel, destroy, and the callbacks of the tree | tree runtime, host, process driver, retainer |
| native host (`native_host.c`) | sleeping leaves, compiled patterns | tick and halt of a leaf | session, value store |
| session plan (`plan.c`, `orch_session_plan.c`, `tree_adapter.c`) | explicit stack, nodes so far | compile a node, walk a tree | session |
| runtime (`runtime.c`, `workflow_snapshot_values.c`) | locals of the call | the claim loop | everything above |
| document readers (`yaml_*.c`, `orch_yaml.c`, `orch_tree.c`, `workflow_snapshot.c`) | the owners of what was read so far | read a task, an action, metadata, a contract, a tree, a snapshot; destroy | allocator, YAML library |
| expressions (`expression_lexer.c`, `expression_evaluator.c`, `expression_regex_salts.c`) | lexer, strings and compiled patterns alive | evaluate | Host |
| project initialisation (`praktor_init.c`) | `praktor.yml` and the file behind it | one call of the file system after the other | other programs that do the same |
| parser generator (`lemon.c`) and its parser (`lempar.c`) | grammar, states, tables; the parser's stack | the passes of `main()`; `Parse()` for each token | the caller's values and destructors |

What is hard to get right here, and is therefore where the properties are
aimed: counters that stand for sets (DAG), stale prepared work (registry,
transactions), turns that can stop half way (publication and abort of a cohort),
completions in any order (driver), cancellation racing an exit (worker),
another instance between a look and an action (process control), answers after
the deadline (service control), state that is kept from one tick to the next
while anything may be halted (session), cancellation or the deadline at any
step of the call (runtime), an allocation that fails in the middle of a read
(documents), two passes that must agree (lexer), a rollback by name (project
initialisation), lookaheads that arrive late and error recovery (lemon). `hazards` in `PROJECT.json` lists them at their lines.

## Modules

A component is a record variable and pure operators with the names of the C
functions, plus a machine that lets its owner make every call in every order.
A call that the code rejects before it changes anything is not a step.

* `DagGraph` - tasks, edge lists, acyclicity. `WorkflowDependencies` - admission
  of a document: unique names, known references, edges with their repetitions,
  and Kahn's algorithm as the code runs it.
* `DagState` - the `Dag...` operators and the machine. `DagScheduler` is what
  the header promises, without counters; `DagState` implements it with
  `Scheduler == INSTANCE DagScheduler WITH ...`.
* `TaskRegistry` - slots and two-phase output groups. A
  JSON value is the revision that stored it, so values of different times differ.
* `ValueStore` - store and transactions; a transaction has its baseline, its
  working copy and the touched keys in order.
* `OwnerCohort` extends the last three: an owner opens cohorts, posts branches to
  an executor, closes admission, drains retainers and settles. Executor and
  retainer are libraries outside the repository, modelled as their callers rely
  on them.
* `ProcessDriver` - each operator returns the set of results a driver call may
  have, because the library below chooses completions. One pass of `tick()` is
  a step, so the child acts between passes. `ProcessWorker` extends it with the thread;
  a step is a critical section or what happens between two.
* `ProcessControl`, `ServiceControl` - one execution each; every host call is a
  step and the outside world moves in between.
* `Runtime` extends dependency graph, DAG, registry and store: one
  `execute_yaml()` call. A text value is the task that wrote it. An output label
  is identified with its port; `shell_stderr`, which behaves as `shell_exit_code`
  does, and the older `shell_error` are left out; a Command has one command (of
  several, only the last one writes `stdout`); the cancel probe, once true, stays
  true; `max_active` is 1, as the code has it.

* `NativeHost` extends the value store: each leaf action returns the set of
  answers it may give. The texts are outside the model, so whether one parses or
  matches is open; what is written, and when a call fails instead, is not.
* `SessionValues` - the pool of cached texts with its compaction, and the hooks
  of PipelineSequence, EntryUpdated and ConsumeQueue, as functions of a world
  (session, values, host, whether all went well). Text is a sequence of tokens,
  one per byte of the pool.
* `Session` - the leaves, the processes behind them, the owner's calls, and the
  tree runtime (`eng`). That runtime is a library outside the repository. Its
  order of callbacks is taken from `tree_adapter.h`, `NODE_SEMANTICS.md` and the
  tests: an active control goes on with the child it was at and is not opened
  again; an EntryUpdated whose entry did not change returns its last status; a
  ConsumeQueue without an item fails, and with further items is RUNNING after a
  success; a Retry tries again in the same tick (once, `tries`); an error of a
  callback halts the whole activation. Values are owned by the host and leaf
  hooks are typed, as the native runtime configures a Session; six text slots of
  a Shell are represented by two.
* `SessionPlan` - `compile_node()` over every kind and parameter form, and the
  walk of `create_plan()` over a tree, one popped entry at a time, against the
  preorder and the admissible trees defined from the tree alone.

* `YamlFields`, `YamlTaskFields`, `YamlActions`, `YamlMetadata`, `OrchTree`,
  `OrchYaml`, `WorkflowSnapshot` - the readers, as functions of a reading (status,
  allocator calls so far and which of them fails, live owners, what was read). A
  text is a sequence of pieces. `Documents` is the machine: one call, its result,
  its destruction. `DocumentMeaning` says, without the readers, which documents
  are well-formed and what they stand for; its definitions are the reference the
  properties compare with.
* `Expressions` - lexer, evaluator and Host; `Meaning` is the reference: an
  expression is split at its last operator of lowest precedence. Every call of
  the Host or the allocator may be the one that fails.
* `ProjectInit` - several programs in one directory; each file system call is a
  step that may fail, and a program may be killed between any two.
* `LemonReader`, `Lemon`, `LemonTables` - the passes of the generator over a
  grammar; `Lempar` - the generated parser, one iteration of the loop in
  `Parse()` a step, with every token's value followed to its end and a destructor
  for each symbol or none.

The theorems are in modules of their own: `DagState_proofs`, `Stores_proofs` (task
registry and value store), `ControlCalls_proofs` (process and service control),
`ProcessWorker_proofs` (driver and worker), `ProjectInit_proofs`,
`RuntimeLoop_proofs` and `Runtime_proofs`.

Operators whose comment begins with "Mutant" are wrong variants of the
definition that follows. They are used to confirm that each property notices
the fault.

## Runs

| Run | Instance | Shows |
|---|---|---|
| `stores` | registry: 2 tasks, 1 output, revisions up to 3, 2 groups; values: 3 keys, 2 slots, 2 transactions | no stale group wins, all or nothing; no lost update, a group equals its members in sequence |
| `owner_cohort` | 3 tasks (join), 2 cohorts, queue of 1, 1 process per branch, failing memory | clean publication, exact pending count, DAG and registry agree; the text of a cohort is published in the step that reports all of its tasks as successful, and by no other step that ends transactions |
| `progress` | DAG: 4 tasks, all lists of up to 2 edges, chain, diamond (also with repeated edges), join; 2 active. Control calls: 4 instances, budgets 1, 2 and 3. 2 cohorts of a workflow of 4 tasks, two of them ready at first or in a chain; one worker; no failures of memory or library in these two | exact counters, dependencies first, no task forgotten, `finish()` never partial, quiescence, refinement of `DagScheduler`; a call terminates only what it started or the one instance that a forced stop found after its deadline, restart replaces; late answers, calls return; a closed, accepted cohort is settled; cancel completes, destroy returns |
| `half_settled` | 2 tasks | **violated**: see findings |
| `runtime` | 3 tasks, all action kinds, 2058 documents for admission, 3 slots of text | OK means all succeeded, only success leaves text, admission is exact, the call returns |
| `foreign_outputs` | as `runtime`, without failing resources | **violated**: see findings |
| `session` | 10 scenarios over 6 trees of up to 8 nodes, 8 values, 7 bytes of cached text, 1 sleeping leaf, 1 pattern, 2 reservations; orchestration trees of up to 4 nodes, depth 3, under 4 profiles (one of the four parsers, which differ by name only); every compiled node with up to 4 children | cached texts intact, activations ended once, no process dropped, stages read their input, items handed out once and in order, a successful reset leaves nothing; plans are exact and fit the tree |
| `nested_pipeline` | a pipeline in a pipeline, 10 bytes | **violated**: see findings |
| `lemon` | all grammars of two short rules for one nonterminal, and grammars chosen for one difficulty each (LALR(1) but not SLR(1), not LALR(1), empty rules, precedences, fallback, wildcard, token class, error rules), whole or with a damaged file; inputs of up to 4 to 6 tokens; a stack of 4 that grows to 5 | what is read is what was written, lookaheads are the LALR(1) ones, the language as the precedences resolve it, in grammars with a destructor for every symbol (but perhaps the error symbol) every value destroyed or built in exactly once, `Parse()` returns and reports apart |
| `unlabelled_class` | a rule with an unlabelled token class | **violated**: see findings |
| `retried_command` | the snapshots of `components` | **violated**: see findings |
| `components` | documents with one or two deviations from a good one, every allocation failing in turn; expressions of every operator and quoting, numbers out of range, every Host call failing in turn; 2 programs in one directory, 2 faults or kills; 1 byte of capture, more bytes offered, every failure | documents are read as what they say or nothing is published; lexing and evaluation are exact; a directory is initialised once; bounded and complete capture, nothing freed under a lease; cancellation is never reported as success, no start after an early cancel, completion means reaped |

Where a run is about several machines (`stores`, `progress`, `session`,
`components`), the initial state chooses one of them and the others keep still; in
`progress` the DAG is stopped before anything else runs, and cohorts have a DAG of
their own.

The bounds are the smallest in which the cases of interest meet: a repeated
edge beside a join, a group that becomes stale and one that does not, a store
that is full before a group erases, two cohorts open at once with one rejected
post, output beyond the capture limit on both streams, an instance that is
replaced twice, a workflow whose text does not fit, a pool of cached texts that
is too small for a pipeline and a Shell together. Revisions are cut off at
`MaxRevision`, which stands for `UINT64_MAX` and makes its refusal reachable. That
no task exceeds its limit of outputs is a part of `RegistryInv` that the small
instance does not strain; the proof shows it for every limit.

Deadlock is not checked where the system ends: a call that has returned
(`progress`, `runtime`, `foreign_outputs`, `components`, `retried_command`), a
registry whose revisions have run out (`stores`), a parse that is over (`lemon`,
`unlabelled_class`).

### Fairness

* DAG: the owner claims while it can and settles each reservation, as
  `workflow_dag_state.h` demands of it.
* Cohorts: worker threads run their callbacks to the end, the owner repeats a
  settlement until it seals, processes are reaped in the end.
* Worker: the thread is scheduled, a terminated child ends and its pipes are
  closed, a tick that has something to do does some of it sooner or later
  (strong fairness, since the library may be busy in between), the library becomes
  quiescent when closed. A descendant that keeps a pipe open breaks the second
  assumption, and the code has no bound of its own there.
* Control calls: host calls return and time passes.
* Generated parser: a call of `Parse()` goes on; nothing makes a caller call again.
* Runtime: the calling thread runs and time passes. Nothing makes a command end.

Paths on which the library fails are part of the safety runs only.

## Proofs

Each proof file follows the same argument: an inductive invariant that contains
the property of the run, a lemma per action with one step per conjunct the
action can disturb, and the property as a consequence.

* `DagState_proofs`, for every `Count`, every acyclic graph and every `MaxActive`
  (`GraphAssumption`, `DagAssumption`): `DagInv` is inductive. The safety
  properties alone are not: that `finish()` never meets a zero counter needs
  `remaining[]` to be the exact number of open edges, which needs the phases to
  tell exactly which tasks succeeded while the run continues, which needs each
  failure and refusal to leave a terminal reason. From `DagInv` follow
  `DependenciesFirst`, `AllSucceededSound`, `NoStall` (with acyclicity: the set
  of pending tasks has a member with no pending predecessor),
  `FinishNeverPartial`, `TerminalIsFinal`, and the refinement of `DagScheduler`,
  step by step.
* `Stores_proofs`, the task registry, for any number of tasks, keys, groups and any
  limit (`RegistryAssumption`): `RegistryInv` is inductive. The strengthening is
  `FreshEntryMatches`: an entry is never newer than its slot, and while the two
  revisions agree it describes the slot exactly. From it follow
  `OneRevisionPerChange`, `FinalizedImmutable`, `NoLostOutput` and
  `PublishAllOrNothing`.
* `Stores_proofs`, the value store, for every capacity and any finite set of keys
  (`StoreAssumption`): `StoreIInv` (types, capacity, every difference between a
  working copy and its baseline has its record) is inductive. `GroupIsSerial`
  follows from it; that a commit cannot exceed the capacity halfway goes through
  the touched keys in order, and looks at the first one that goes wrong
  (`LeastNumber`, from the well-foundedness of the natural numbers). From the same
  invariant `NoLostUpdate`, an action property.
* `ControlCalls_proofs`, for every budget and polling interval
  (`ControlAssumption`, `ServiceAssumption`). What `ControlInv` says of a
  terminate is what the code ensures: it is for the instance that the call itself
  started, or for the one that `force_query` found after the deadline of a stop
  with `force_terminate`. The latter need not be the instance that was asked to
  stop: the code asks again and takes what it finds (`process_control.c:88-90`), so it may
  be one that somebody else started in between. `ControlIInv` adds to `ControlInv`
  which program counters an operation can have, that the instances the call
  has met are known, and that the instance it saw first, and one it started and
  gave up, is gone before the call goes on. `ServiceIInv` adds the stage of each
  operation, which command was issued in which stage, and that `changed` is
  exact in the middle of the call, not only at its end.
* `ProcessWorker_proofs`, for all sizes of input, output and line buffers
  (`DriverAssumption`). `DriverIInv` adds to `DriverInv` the life cycle of the
  driver: it works on an active process only, is done for a reason and is freed
  only under an inactive library; and it counts each byte read, also what a read
  that completes after `close()` takes from a pipe and the driver drops
  (`process_driver.c:77`). `CaptureComplete` follows: such a loss needs a stream that
  was not at its end, so a capture that was complete stays complete. `WorkerIInv`
  adds who owns the driver at each point of the thread, and that nothing is terminated without a request. The two
  machines meet in lemmas about the results of the driver's calls, so the worker's
  thread keeps the driver's invariant as well (`WorkerDrives`). The driver's ending `SIGNALED`,
  which behaves as `EXITED` and is left out of the run's instance, is covered here.
* `ProjectInit_proofs`, for any number of programs, templates, failures and kills
  (`InitAssumption`): `InitializesOnce` needs that each file has one maker, that a
  program works on its own file only, that the directories it has passed over
  on its search for a template were passed over for a reason, and which templates
  it could not look at when it listed them: `init_discover_directory()` passes over
  an entry or a directory for which `access` or `stat` fails, and goes on. A missing
  template is reported with exactly the others.
* `RuntimeLoop_proofs` and `Runtime_proofs`, for every set of workflows
  (`RuntimeAssumption`, `GraphAssumption`): `RuntimeIInv` joins the invariants of DAG, registry and
  store to the locals of the call: which task is current and what DAG and
  registry say of it (`Agree`, `AtTask`), which status goes with which terminal
  reason (`Reasons`), that nothing has happened before admission (`Fresh`), and that
  the writer of each text is a task that succeeded or is just being published
  (`Authors`). The lemmas of `DagState_proofs` and `Stores_proofs` are cited for the
  calls into the three components; that the call uses the DAG state properly is the
  theorem `RuntimeSchedules`.

The proofs about the runtime take from admission only that an admitted document
has an acyclic graph. That `Kahn` establishes this is a statement about what a
recursive definition computes, and is checked as `AdmissionExact`.

Only model-checked: all liveness (fairness and `ENABLED` are out of the prover's
reach); the modules with recursive operators (documents, expressions, lemon), as
the prover has no induction over data; `OwnerCohort`, whose settlement and pending
count are folds over a set of tasks, for the same reason; `Session` and
`SessionPlan`.

## Findings

1. `half_settled`: when `registry_fail()` cannot allocate in the middle of the
   abort loop (`workflow_owner_settlement.c:180`), a prefix of the cohort is
   settled, the rest stays reserved and no later settlement is accepted.
2. `foreign_outputs`: the exit code a failed Shell task publishes
   (`runtime.c:252`) may be the one of an earlier task, because the scope of a
   task starts as a copy of the root text; and a successful Command, whose
   output is renamed to `stdout`, publishes an earlier `shell_output`.

3. `nested_pipeline`: in a tick after the first, the second leaf of a stage of an
   inner PipelineSequence is given the input of the outer pipeline, because
   `session_restore_pipeline()` (`session_controls.c:25`) goes on to the next
   pipeline once the inner one was restored. In the trees of `session`, in which
   pipelines are not nested, `StageReadsItsInput` holds.

4. `unlabelled_class`: the value of a token that matches an unlabelled token class
   (`A|B` in a rule) is never destroyed, because `has_destructor()`
   (`lemon.c:3903`) takes the class for a nonterminal.

5. `retried_command`: a task with a command and `retries` is accepted
   (`yaml_task_metadata.c:113` looks at no runner); `docs/HOST_TOOL.md:146` says that
   only the `tool:` runner accepts `retries`, and `grammar.schema.json:939` makes
   `retries` depend on `tool`.

Smaller observations that the models record as the code has them: a killed
`praktor init` leaves a partial `praktor.yml` that later calls refuse to replace;
YAML keys are looked up by their raw spelling and checked by the decoded one; an
empty plain scalar becomes the number 0; of repeated contract fields the first
counts, of repeated environment keys the last; in expressions both operands of `&&`
and `||` are evaluated, `'nan'` and a text that spells a number out of range are
unequal to themselves, `!==` is never one token and a regular expression is given
out as NULL but is true; `$x.includes(...)` is a variable named `x.includes`. A Switch without children asks
for its selector without restoring the input of its stage first (`session.c:194`), which
the leaves that are dispatched do; what the selector says makes no difference to
its FAILURE. What a read takes from a pipe after `close()` is dropped. In
`lempar.c` the search for a state that shifts the error symbol never looks at the bottom of the stack, `$` on
top of the error symbol is discarded with neither acceptance nor failure, and a
chain of fallbacks violates an assertion (`lempar.c:581`), which `AssertsHold` leaves
out; no fallback of the run has one itself. With the error symbol the parser
pushes a copy of the value of the token at hand (`lempar.c:1027`). Where that symbol has
a destructor, its own or the `%default_destructor`, the copy is destroyed besides the
token's own value. In the grammars of `lemon` it has none, and `ValuesAccounted`
does not count the copy. In `lemon.c` an unterminated last rule is dropped, a missing last `%endif` is accepted, and 256 errors exit with 0.

## Not modelled

The parser of YAML text (a library), typed data and queries, templates' texts,
hashing, profiles, the component host, the output scanner, the command line, the
SDK and the schema tool: sequential conversions without shared state. Of lemon:
its hash tables (mappings here), the report, the header file and the text of the
actions. The two older entry points of the process guard with one retainer.
Windows handles, enumeration and quoting in `process_native.c`. Length limits of
keys, values and JSON. Parallel nodes of a Session with their branch hooks, its
compatibility dispatcher, and what a condition, a selector or a dynamic limit
resolves to. Numbers in expressions that underflow. A rejected call of the older
process guard reports no pending process although some may be held; it is part of the entry points left out.
