# A TLA+ verification of skillexec

`skillexec` packs agent skills (Markdown files with executable fragments) into
signed containers, relates them, serves them and runs them. These modules model
its code. Every definition follows the Rust source, whose lines `PROJECT.json`
names definition by definition; line numbers below are of the files under
`crates/`.

- [Inventory](#inventory)
- [Modules](#modules)
- [Runs, bounds and what they show](#runs-bounds-and-what-they-show)
- [Fairness](#fairness)
- [Proofs](#proofs)
- [Where code and documents disagree](#where-code-and-documents-disagree)
- [What is not modelled](#what-is-not-modelled)
- [Plan](#plan)

## Inventory

The repository is a workspace of six crates. `skillc` compiles Markdown through
`skill-format`'s `Builder` into containers; `skill-mcp` opens containers through
`skill-format` and renders members through `skillc`; `skill-run` takes an opened
container and runs one segment of it; `skill-embed` gives `skillc` and
`skill-mcp` vectors; `corpusctl` collects the corpus the rest is tried on and
shares no state with it. Interaction is by function call and by the file format:
what `Builder::build` writes, `Skill::open_with` judges.

| part | state | operations | what makes it correct | what makes it hard |
|---|---|---|---|---|
| **skill-format, reading** (`lib.rs`, `manifest.rs`, `validate.rs`, `header.rs`, `sig.rs`, `routing.rs`, `embed.rs`, `codec.rs`, `raw.rs`) | an opened `Skill`: manifest, node table, children, two regions inflated on first use | `open_with`, `region`, `payload`, `verified_payload`, `verify_all` | only well-formed graphs are accepted; every byte is committed to by something checked before it is used | single-pass checks that follow pointers of the file being judged; order of checks; regions filled lazily by several readers |
| **skill-format, writing** (`writer.rs`) | `Builder`: nodes with parent, edges, payloads | `add_skill`, `child`, `segment`, `edge`, `build` | what it writes is accepted and verifies; one encoding per content | renumbering to pre-order, sharing of payloads across nodes, choice of the hashes kept |
| **skillc, compiler and renderer** (`md.rs`, `classify.rs`, `compile.rs`, `render.rs`) | heading stack, pending payload, fence flag | `build_into`, `bundle_with`, `render_from` | nothing of a document is lost or moved; tiers grow downwards | every order of headings, texts and fences |
| **skillc, command line** (`bin/skillc.rs`) | - | `plan` and the wrappers of the others | `plan` says of a container what the server says | a second reading of the edge table, with other checks |
| **skillc, organizations** (`org.rs`) | manifest, three adjacency lists, Kahn's indegrees | `plan`, `compile` | all members planned, each after all it waits for; the file opens | three relations ordered as one, a fourth left out; repeated edges |
| **corpusctl clone** (`corpusctl/src/main.rs`) | `used`, `charged`, `full` shared by a thread pool; directories with `.done` markers | `admit`, `release`, `commit`, `git_clone`, restart | ceiling held, books balanced, nothing complete lost | atomics one by one, failures, kills and restarts |
| **corpusctl run, prune, build** | counters | directory walks | counts add up | nothing shared but counters |
| **skill-run** (`lib.rs`, `imports.rs`) | wasm store with fuel and epoch, ticker thread | `run` | nothing runs that was not declared, verified and bounded | order of refusals, ticker thread against the call |
| **skill-mcp** (`library.rs`, `server.rs`) | containers, catalogue, vectors, one embedder behind a mutex | `open`, `search`, `load`, `segments`, `organization` | what is returned is of the skill asked for, and verified; every search is answered | names across containers, edges out of a container, a model that fails or panics under its lock, files written over while they are read |
| **skill-embed** | an external model | `embed` | - | - |

The hazards each part is exposed to are listed in `PROJECT.json`, each at the
line where it bites, with the properties that guard it.

## Modules

Each component has a module with its variables, one action per step of the code,
its specification and its properties. Operators whose comment starts with
*Faulty* are not part of any specification: each is a plausible bug in the
definition that follows it, and the property it was written for is violated when
it takes that definition's place.

| module | models | with |
|---|---|---|
| `PreOrderCheck` | the forward pass of `validate::graph` (validate.rs 6-47) and `on_root_path` (63-75), loop turn by loop turn: `i` is the loop variable, `cur` the walk's, `pc` the check that comes next | `OrderedTrees`: what a pre-order listing is, without any pass; `PreOrderVerdict`: the abstract specification, one step that decides |
| `CycleFree` | `cycle_free` (validate.rs 169-203): `mark`, `stack` of frames, `root` of the outer loop; the same search written as a recursion is `find_cycle` (org.rs 399-446), whose answer is `Reported` | `Digraphs`: reachability by closed sets, no recursion |
| `CloneBudget` | `corpusctl clone` (main.rs 81-180, 182-315): a program counter per repository, one action per atomic operation or per piece of file-system work between two | |
| `EdgeRules` | `check_edges` (validate.rs 96-167) as a predicate over a finished container | |
| `OrgPlan` | `Manifest::plan` (org.rs 159-258), `find_cycle` by its result (its search is `CycleFree`), `topological` (450-470) turn by turn, `compile` (272-381) for roots, artifacts, gates and edges, and the opening of what it wrote | `EdgeRules`; `Delivery`: the abstract specification, members that act when those they wait for have acted |
| `CompileRender` | `build_into` (compile.rs 70-184) block by block, `Builder::build` (writer.rs 269-361, 671-723), what a reader computes from the file (lib.rs 187-192, 336-410) and `emit_at` (render.rs 25-70) | |
| `PayloadRanges` | `check_payload_ranges` (validate.rs 221-253): the loop that collects, `sort_unstable` as any arrangement in order, the loop that compares neighbours | |
| `SkillOpen` | `Skill::open_with` (lib.rs 91-204) check by check, with `Header::parse`, `sig::verify`, `Manifest::parse`, `routing::read`, `embed::read` and the checks after them by what each can answer; then `region`, `payload`, `verified_payload` and `verify_all` (294-427) by threads that share the file: `pc` is the check that comes next, `kept` the two `OnceLock`s, `reading` what each thread is at | `PayloadRanges`, whose steps it takes at their place; `CommittedContainer`: the abstract specification, a container of one version that hands out that version's payloads |
| `Library` | `Library::open` (library.rs 120-187), `search_weighted` (222-349) with the lock, `find`, `load`, `segments`, `organization` (357-545), the tools (server.rs 159-303), and `skillc plan` (skillc.rs 722-803): `pc` for the start, a record per client for its call | |
| `SegmentRun` | `skill_run::run` (skill-run/src/lib.rs 207-329) gate by gate, the import tables (imports.rs 28-167) by row, `EpochTicker` (74-108) as a second thread, and `classify_trap` | |

Choices a reader should know:

- **Tables as numbers.** `PreOrderCheck` starts from decoded fields. A parent field
  holds any index, one past the end, or NONE32; larger values fail the same comparison.
- **Relaxed atomics.** The three atomics of `Budget` are taken one operation at a time in
  one order. Each is a single read-modify-write on one variable and no decision combines
  two of them within one operation, so the interleavings of single operations are the
  behaviours the properties are about; a `full` read late only delays a thread's stop and is
  covered by the step that reads it coming before the one that sets it.
- **`full`** is only set, and read only when a repository is taken up, so the operation
  that decides to set it sets it.
- **A clone** is its outcome: failed, or a pruned tree of some size. What is on disk while
  git runs belongs to the thread; it is only seen when a restart cuts it short.
- **Blocks, not characters.** `CompileRender` prints the blocks `render` prints the text of.
  The parser is kept as the sequences of blocks it can return: no two texts in a row, nothing
  after an unclosed fence.
- **A guest** may at any moment return, trap, or go on, burning a unit of fuel or less than one;
  the engine stops it when the fuel or the epoch says so. That is all the model knows of
  wasm. A sleep lasts at least as long as asked; `elapsed` is what the properties know of real time.
- **Hashes** are the tree of what they cover, so two are equal exactly when all of it is.
- **A file in `SkillOpen`** is a row of blocks (header, signatures, routing, vectors, manifest,
  payloads, bytes no node claims), each of one of the versions of a container or damaged: a copy
  cut short, overwritten in part by another release, or gone bad on disk. A damaged block may parse as
  anything its parser can return; a publisher may have left one flaw in a file it then
  committed to. Node tables and regions are those of `PayloadRanges`; the other graph checks are one
  check there, because the three modules above are about them.
- **A commitment's subtree** (`Covers`) is a constant of `SkillOpen`; how subtrees hash is `CompileRender`.
- **`Library` and its books.** A file is written from a book (skills, their parts, edges); the server
  holds the tables a reader would find, computes its answers from the tables as the code does, and the
  properties compare them with the book. A book is one the writers could have been given (`WellFormed`). Every file is a bundle, so entries are never the root. A
  sorted list is defined by how many come before each of its members. Opening and
  verifying have the outcomes `SkillOpen` allows, by the health of the file. Scores are small integers: the
  blend keeps the code's 7 to 3.
- **Member documents** carry no edges and **edges** carry no payload, so `OrgPlan` and
  `CompileRender` are separate; the shape of an organization's tree is in both.

## Runs, bounds and what they show

| run | instance | states | shows |
|---|---|---|---|
| `tree_pass` | every table of 4 entries, 3 tiers, parents 0..4 and NONE32 | 220,000 | accepted tables are the pre-order listings of tier-monotone trees (`AcceptedIsTree`); the pass ends (`Terminates`) and implements `PreOrderVerdict` (`ImplementsDecision`), which refuses no such table |
| `cycle_free` | every graph of 4 nodes with at most 2 edges each | 889,000 | `Ok` only for acyclic graphs, an error only with a node on a cycle, and with the cycle in order where the planner reports one (`ReportsCycle`); the search ends. `TypeOK` is proved and not run |
| `clone_budget` | 4 repositories, 2 threads, ceiling 4, 2 turns of admission, 2 runs | 100,000 | `used` is `charged` plus what is held, between any two atomic operations; grants in flight fit the ceiling; bytes at rest are charged; the ceiling holds whenever no clone is in flight; a marked tree is lost only to the refusal of its commit; every repository gets an outcome |
| `clone_resume` | the same | | refutes "`charged` is bytes on disk alone" |
| `org_plan` | manifests of up to 3 members, a few edges of each relation, ordinals wrapping at 2 | 232,000 | no member lost; declaration order breaks ties; the plan is a run of `Delivery`; what plans is refused by the reader only over fallbacks; in a container that opens, the file's order is the plan |
| `org_fallbacks` | the same with ordinals of 256 | | refutes "acyclic by construction" |
| `compile_render` | one document of up to 4 blocks, two in a bundle with 3 blocks, two in an organization with 2; a heading of each tier, two levels, one text used in both regions | 803,000 | neither the writer nor the reader's pass over the tree refuses what the compiler builds; every hash kept is the one the reader computes; a payload is verified without reading anything hotter; no prose in the routing plane; documents come back block for block |
| `org_member_render` | organizations of one member | | refutes byte-exact rendering of a member that carries an artifact or a gate |
| `segment_run` | calls that fail any set of gates; any of 6 imports against any of 4 kinds; budgets of 0 to over the ceiling, a tick of 2 | 154,000 | no instruction runs unsanctioned, start functions included; a segment is interrupted only after its budget to the tick; `run` returns, leaving no thread, even from an entry that never ends |
| `segment_free` | the same | | refutes "an import that needs no capability at all" |
| `skill_open` | two releases; up to two blocks, or two payloads, of the other release or damaged; every header fault and every publisher's flaw; 4 shapes of file, 4 policies, 3 dictionaries; every table of 2 payloads and of 3 in one region, offsets to 4; 2 readers | 890,000 | a file that opens is one release in everything `open_with` relies on (`AcceptedIsCommitted`); a file as written is never refused and reads without error (`IntactNeverRefused`); ranges are judged rightly (`RangesDecide`); opening and concurrent reading implement `CommittedContainer` |
| `library` | directories of up to 2 files out of 9 kinds, a release written over one of them at any moment; 2 clients, 3 queries, a limit of 2; loading, embedding or the model's runtime may fail | 46,000 | hits carry the scores of their own words and their own vector and come in order (`SearchTrue`); what the tools and `skillc plan` say of a container is what was compiled into it (`ToolsAnswerTruly`); every search is answered (`SearchAnswered`) |

Why the bounds are enough to be interesting. Four entries are the smallest table in
which an entry can return to an ancestor that is neither its predecessor nor the root,
and then be followed by another; all properties of `PreOrderCheck` are proved for every
size in any case. Four nodes and two edges hold every shape a depth-first search tells
apart: diamonds, back edges to the top and below it, repeated edges, self-loops, a second
start node; again the proofs cover every size. Two threads and a ceiling that any one
reservation fits, but no two of the larger do, make contention, refusal, overshoot and the full
budget all reachable; the second run starts over every remainder the first can leave.
Three members are the fewest with a member that waits for two others along different
relations, and an ordinal that wraps at 2 lets fallbacks collide in lists as short. Two
documents with the same contents put shared payloads in one region and equal payloads in
both; four blocks are enough for a section to be opened, continued after a fence, closed
by a heading and followed by another.

The imports are one of each
row of `required_capability` and of `provide`; wall budgets of 0 to 6 against a tick of 2 hold
the undeclared one, less than a tick, a whole number of ticks and not, the ceiling and more.

Two changed blocks are the fewest that could vouch for each other; two releases the fewest that
can be mixed, and a third would only stand where the second does. In `skill_open` every pair of readers
meets both at an empty cell and at a filled one, and three payloads in one region hold a range between
two equal ones. Of the proofs none depends on these numbers. In `library` the organization has a segment in
two members, so that an index counted within a skill differs from one counted over the file, and its skills share
names with the bundle before it.

Deadlock is not checked: every one of these programs ends. Where it must end,
a liveness property says so.

## Fairness

`PreOrderCheck` and `CycleFree` are sequential functions: `WF_vars(Next)` says that a
function that can take a step takes it. `CloneBudget` has weak fairness on each
repository's thread: rayon's pool keeps its workers running, the back-off of `admit` is
a timed sleep tried ADMIT_TRIES times, and `git_clone` kills its child at a deadline, so no step waits for
ever. Nothing is assumed of restarts. In `SegmentRun` the calling thread and
the ticker run and time passes; a guest that goes on reaches a point where the engine
compares epochs (it compiles such a check into every loop and call). Nothing is assumed of guest code's ending
or burning its fuel, so `Returns` rests on the ticker alone; it leaves out a start function that
spins, which the code leaves to the fuel. In `Library` a search of each client is weakly fair: a tool call has a thread of
its own, the lock is held for one call of the model at a time, and loading and embedding return, fail or
panic. Nothing is assumed of clients, of releases, or of the start. `OrgPlan`, `CompileRender` and
`SkillOpen` are checked for safety only; that `open_with` ends is the subject of the modules of its loops.

## Proofs

TLAPS checks the following for all values of the constants.

**`PreOrderCheckProofs`**, for every table (from `TableAssumption`: NONE32 is larger
than the table). What the code tests, that the parent is on the root path of the entry
before, is not what it must ensure, that every subtree is an unbroken run. The lemma
`ContiguousExtends` closes that gap: a table whose first k entries are contiguous stays so with
entry k exactly when its parent is an ancestor of entry k-1. With it the inductive
invariant `IInv` is: the entries before `i` form a pre-order tree (which no loop variable
says), the walk stands on an ancestor of `i-1`, and every ancestor of `i-1` not yet passed
is at or above it. From it follow `TypeCorrect`, `Soundness` (`AcceptedIsTree`), `Completeness`
(`RejectsFirstOffence`), `WalkInBounds` (`WalkStaysBehind`) and `DecisionSafety`: initial states
and steps of the pass map to those of `PreOrderVerdict`.

**`CycleFreeProofs`**, for every graph (from `GraphAssumption`: edges end at nodes). `IInv`
adds to the properties that finished nodes lead only to finished nodes and lie on no
cycle, that the edges a frame has followed lead to finished nodes except the last, which may
lead to the frame above, and that start nodes tried are seen. Theorems `TypeCorrect`,
`Soundness` (`OkMeansAcyclic`), `Completeness` (`CycleIsReal`), `StackCorrect`
(`StackIsPath`). `CycleReported` (`ReportsCycle`) adds `LinkInv`: each frame has last followed the edge to
the frame above it, and the top one the edge on which the cycle closes; so the nodes from there up are
a cycle in order, without repetitions because grey nodes are on the stack once.

**`CloneBudgetProofs`**, for every list, ceiling, number of threads and of restarts (from
`CloneAssumption`). `MarkedTreesSurvive` (`MarkedTreeSurvives`) rests on an invariant about the order of
the steps: between looking for the marker and creating it, a thread's tree has none. The budget's
properties are about sums over all repositories while every step changes the summand of one. Their
invariant `Ledger` keeps the books of both totals (`used` against what is held, `charged` against what is paid and what
is about to be refused) and compares each step with that one summand. `GrantedFits` needs `Accounting`, and
`CeilingHoldsAtRest` that a commit refused is taken off again before the thread is at rest. What the proofs need of
sums (one summand changed, one sum below another) is in the section *Sums*: a sum is the number of units in it, so that
cardinalities, which the library knows about, take the place of an induction. Theorems `TypeCorrect`, `AccountingHolds`,
`GrantedFits`, `ChargedCovers`, `CeilingHoldsAtRest`.

**`OrgPlanProofs`**, for every set of manifests (from `ManifestAssumption`). The invariant says of Kahn's loop that each counter
is the number of edges into its member from members not yet planned, repeated edges counted as often as they occur,
and that `ready` holds the members without any. `EveryMemberPlanned` (`NoMemberLost`) needs besides that a finite set
on which no member reaches itself has a first: a smallest set without one would have a smaller one. `DeclarationOrder`
(`FirstDeclaredFirst`) and `PlanIsDelivery` (`ImplementsDelivery`, every step a step of `Delivery` or a stutter) follow.
A second invariant, `JudgedInv`, keeps what each check has established of the references, and what was written. The nodes
of a container are the members' one after the other (`Laid`, `Table`), so that each part of a member is found at
one place; with what the checks established, every edge then joins the parts its relation takes (`Fits`), and a pipeline edge leads down
the file because the plan does. A cycle among the edges can only run through member roots, along pipeline and fallbacks
(`NothingFollowsItself`): `RejectedForFallbacks` (`RejectsOnlyFallbacks`). `PlanReadOffFile` is `FileOrderIsPlan`.

**`CompileRenderProofs`**, for every form of file, set of titles, texts, codes, levels and tiers, and any number of
documents and blocks (from `CompileAssumption`). The inductive invariant has five parts, each over the ones before:

- `BuildInv`: what `build_into`'s stack remembers agrees with the nodes; a node follows its parent and is no hotter. So
  no prose gets into the routing plane (`NoProse`, `NoProseInRouting`).
- `ShapeInv`: the builder's list is in pre-order as it is built. Between a node and its parent are only nodes below that
  parent (`Nests`); what may be given a child later is an open section or a root (`Growing`, `Chained`); a fence or a
  frontmatter has none; and the nodes below a document's root are a stretch of the list (`Rooted`, `Spans`).
- `OrderInv`: `pre_order`'s stack, on which children are pushed backwards, yields the nodes in the order of their numbers.
  The argument is `Tour`: the top of the stack is the node after the last one out, and stacked are exactly the nodes to come whose
  parent is out. It is stated of any list of parents in pre-order, because `render`'s recursion keeps the same stack (`LoopTurn`, `LoopEnd`).
  So the file says of node i what the list says of node i (`Faithful`): a content stored once is found at the offset of every node of that
  region that has it, and the hashes kept are those of the list.
- `StoryInv`: the nodes of a document, in that order, print the blocks read so far (`Transcript`). Text that fills the section before it
  is the case to look at: nothing may have been added since the heading, which is what the code's `saw_fence_in_section` is for.
- `RenderInv`: what is out is what the nodes up to the last one taken print.

`NeverRefusedHolds` (`NeverRefused`), `TypesHold` (`TypeOK`), `CommitmentsHold` (`CommitmentsVerify`),
`VerifiedWithinTierHolds` (`VerifiedWithinTier`) and `RoundTripHolds` (`RoundTrip`) follow. Hashes and commitments are defined
by recursion over the nodes; that such an equation has a solution, and one only, is proved by a least node where it fails
(`HashesExist`, `HashesUnique`, `CoversExist`, `PathsExist`).

**`SegmentRunProofs`**, for every set of calls, policy and length of the tick (from
`RunAssumption`; the bound on the epoch reaches the deadline). The gates behind `run` hold of its call
(`Sanctioned`, `RunsOnlySanctioned`); the ticker lives from the call to the join (`NoThreadLeft`,
`TickerJoined`). For `WallBudgetGiven` (`InterruptedNotEarly`) the invariant is that the epochs counted,
times the tick, plus what the ticker has slept of the next, are at most the time passed, so
that reaching the deadline, `Wall \div Tick` and at least 1, takes the budget to the tick. `TypeCorrect` as before.

**`SkillOpenProofs`**, for every node table, both region lengths and every largest number (from `TopAssumption`), and
for every set of versions, payloads, keys and readers, and every file, policy and dictionary (from `OpenAssumption`).
First the range check by itself, `RangesRight` (`RangesDecide`): the invariant says of the ranges collected that they are
exactly those of the nodes passed, in some arrangement, and of a sorted list whose neighbours compared so far do not clash, that no
two of it do. That is the step a reader would doubt, that neighbours are enough: equal ranges
stand together, and a range that reaches past its neighbour would have to clash with it.
Then opening and reading. The invariant carries along `pc` what each check passed has
established (`OpenAcceptsCommitted`, `AcceptedIsCommitted`), that a kept region is of the version the tables are of, and that a
thread past its region has it kept; so a payload whose commitment matched is that version's, whoever
inflated the region. `OpenImplements` (`ImplementsContainer`) maps every step to a step of `CommittedContainer` or a stutter.
`OpenRefusesNoIntact` (`IntactNeverRefused`) goes the other way: of an intact file no check finds its reason to refuse. `OpenTypeCorrect` and
`OpenRangesRight` are `TypeOK` and `RangesDecide`, the latter from `RangesRight`'s invariant step by step.

**`LibraryProofs`**, for every set of directories and releases, every number of clients and tools they call, every query, limit and
measure of words and meaning (from `LibraryAssumption`: files are written from books as the writers make them, `WellFormed`).
Three groups of lemmas say what the functions of the answers compute:

- *The tables.* Skills lie one after another from node 2 on (`Placed`, `NodesAre`), each a stretch of the table no other skill shares
  (`Apart`, `OneSkill`), so the walk upward from a node meets its own skill's root and the file's, and no other root (`UpwardOf`).
  Hence `Subtree` is the skill that was written (`SubtreeIs`), `Owner` names the skill an edge was drawn from or to
  (`OwnerIs`, `RelationsAre`), the segment with n segments up to it in the file has the n-th record (`RecordIs`), the first artifact
  or gate met is the member's own (`OwnPartIs`), and what commits to a skill's root is the file's root (`CommitmentIsRoot`).
- *The catalogue.* It and the vectors are put together from lists of the same lengths, so entry k of one stands beside entry k
  of the other (`ParseCatalogues`). That is what a container without vectors would spoil if it took no places.
- *The list of hits.* The order by score, name and place is total (`Orders`), so each place of the list has one skill and whatever comes before it
  in the order is listed before it (`Ranked`, `ListRanked`). The blend rises with either score if the other does
  not fall (`BlendRises`), also after both have been rounded to halves of the best.

The invariant `LibraryInv` has three parts. `HeldInv`: containers held are ones good books write, and while the server serves the catalogue is theirs.
`CallInv`: a call carries what its stage needs, a search zeros for its meaning until it has had the model and then zeros or the
meaning of all skills, and every answer is right. `LockInv`: exactly the search at the model holds the lock. Answers stay right because nothing
they were computed from changes once calls are made; the start is over, and a release changes the directory alone. Theorems
`LibraryTypes` (`TypeOK`), `SearchesAreTrue` (`SearchTrue`), `ToolsTellTrue` (`ToolsAnswerTruly`).

So every invariant a passing run checks is also proved. Model-checked only, and why: liveness (`Terminates`, `EveryRepoAnswered`, `Returns`,
`SearchAnswered`, and with it the fairness of `ImplementsDecision`), which the prover does not reach.

## Where code and documents disagree

Each is a run that TLC refutes, quoted in `PROJECT.json`.

1. `clone_resume`: main.rs 105-106 says `charged` is bytes on disk alone. A
   resumed run charges the unfinished trees it finds, then removes them (main.rs
   242) without taking them off, so it can stop early, past a budget it has not used.
2. `org_fallbacks`: docs/SPEC.md 608-612, docs/GRAPH.md 265-269 and the head of org.rs say
   that an organization's obligation graph cannot have a cycle because its
   sources are gates and its targets roots. Fallbacks join roots to roots and the planner does
   not look at them: `skillc org` then writes a container that its reader refuses.
3. `org_member_render`: skillc.rs 650-651 says rendering a member out of a container is
   byte-exact. A member of an organization prints its artifact and its gate after
   its own text.

4. `segment_free`: imports.rs 17 says that FREE marks an import that needs no capability
   at all. The gate (lib.rs 260-264) looks FREE up among the declared kinds like any other, so
   `proc_exit` is refused unless a capability of kind 0, which has no name, is declared.

More of the kind are in the models and have no run: net:host imports pass the gate when declared
but are never given to the linker (imports.rs 119-120 has declared capabilities link and report unsupported), and a start function
that burns its fuel is reported as `Instantiate`, not as `OutOfFuel` (lib.rs 49-51). The server notes of an organization that has a pipeline
but no gates and no handoffs that it "carries no edges: it is a flat bundle" (library.rs 519-521), where `skillc plan`, which looks at
pipeline and gates, prints its plan (skillc.rs 776). The parameter of `skill_org` is documented as the container to read
(server.rs 101-104) and is looked up as the name of a skill. The target of an external edge is an index into another
file and both readings attribute it to a node of this one; `skillc plan` indexes its own table with it and can panic (skillc.rs 740).

What the models show of behaviour a reader may not expect, though nothing is documented otherwise:

- A skill's root in a bundle carries no commitment of its own, so loading one skill verifies the whole file, and a
  payload that does not match in another skill fails the load.
- `skill_org` reports artifact and gate texts without verifying them.
- Of two containers with a skill of one name, the later one's cannot be loaded, though search lists both.
- The library's limit is on the sizes before each read; a file written over in between is read whole.
- A dictionary that is missing or wrong shows as `DeclaredLenMismatch` when the tables are compressed, not as what it is.
- A vector block whose magic is damaged reads as no vectors, and the file opens without them.
- `skillc plan` opens without a dictionary, so it cannot read an organization compressed with one.

## What is not modelled

Byte formats, compression, string and edge tables: data rather than control. What the parsers make of bytes is
kept as the refusals they have; that they never read outside the file is a property of Rust's slices.
Signatures and hashes are taken as perfect. Tokenising, document frequencies and
cosines are constants of `Library`, and the inside of the model and of the wasm engine is external. Of `skillc`, the command line but `plan`: argument handling
and printing. Of `corpusctl`, the name of a directory as a function of the repository's (two names can map to one),
the sidecar file, `git_clone` returning while its child lives when `try_wait` itself fails, and `run`, `prune` and
`build`, sequential walks that share counters. Of `skill-run`, growing memory, what host functions do, and the fields of
an `Outcome`. Duplicate sidecar sections of a manifest (the later one wins, manifest.rs 217-231) are the publisher's
own bytes under its own hash and are not told apart. `skill-embed`, the fuzzer, the evaluation scripts and the wording of
errors have no state to model. The repository's own `specs/` state
the static rules of trees and edges; the modules here follow the code
that decides them.

## Plan

In order of importance, all of it done but the last:

1. `PreOrderCheck`, `CycleFree` with their abstract specifications and proofs: what the
   reader trusts everything else to.
2. `CloneBudget`: the one component with threads, failures and restarts; its safety properties proved.
3. `OrgPlan` over `EdgeRules` and `Delivery`; `CompileRender`: what the compilers promise the
   reader. The planner and the container it writes, and the whole way of a document into a file
   and out again, proved.
4. `SegmentRun`: `run`'s refusals in order, the import gate against what the linker defines,
   the epoch ticker against the call; its safety properties proved.
5. `PayloadRanges` and `SkillOpen`: what is verified before what is used, by a thread and by
   several; implements `CommittedContainer`; proved.
6. `Library`: several containers, names found across them, and the tools over them; its safety properties proved.
7. Left: the other commands of `corpusctl`.
