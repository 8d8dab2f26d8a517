# A TLA+ development of m64k

m64k is a 64-bit processor in SystemVerilog, at the stage where its execution units exist and
the rest of the core does not: five tagged units (`src/rtl/core/execute`), the Python semantics
they are meant to have (`src/model/m64k`), interface bundles, testbenches, and the scripts that
build, fetch and validate things around them. This directory models the units, the semantics
they are compared with, the script that publishes test executables, the one that caches the
reference manuals, and the ASIC flow with its records and audit; TLC checks the models on small
instances, and TLAPS proves what holds for every instance.

Paths below are relative to the repository root.

## Inventory

### The execution units

All units speak one protocol (`rtl/core/execute/common/m64k_execute_backend_pkg.sv`). A
dispatcher presents a request with a *tag*; the request is accepted at a clock edge where
`request_valid` and `request_ready` hold. The recovery logic may present a *squash* with a tag at
any edge, the accepting one included. A response stays until an edge with `response_ready`. The
tag names a context, a ROB slot, its generation, an allocation sequence and a micro-operation;
the units only compare tags. Reset may come at any edge.

| Component | State | Operations | What is hard | What makes it correct |
|---|---|---|---|---|
| Scalar divider (`divide/`) | FSM, 128-bit dividend/quotient register, remainder, divisor, iteration counter, response | accept, two quotient bits per edge, finish, respond, cancel | squash at the last edge; alignment of four widths and two dividend lengths; the most negative values; fault and flag rules | every response is integer division's; exact-tag cancellation; no operation lost; ready again |
| Scalar multiplier (`multiply/`) | four pipeline registers with valid bits | advance, stall | squash of each stage while moving and while stalled; carry of the cross sum; signed corrections by width | responses in request order, each the exact product; nothing dropped, duplicated or resurrected |
| Integer pipe (`integer/`) | one response register | load, drain, hold, reject an illegal operation | replace while consuming; illegal request meeting a waiting response; carry/borrow/overflow of one shared adder | flags order the compared integers; illegal or squashed requests leave nothing |
| Iterative rotate through extend (`shift/m64k_rotate_extend_iterative.sv`) | FSM, 65-bit ring, count, stage index, response | accept, one conditional rotation per edge, finish, respond, cancel | count modulo *width + 1*; right rotations as reversed left ones; squash at the last stage | the ring after each stage is the operand rotated so far |
| Logarithmic network (`shift/m64k_shift_rotate_fast.sv`) | none | shifts and rotates but those through extend | overflow of ASL distributed over the stages | equals the semantics and the reference circuit |
| Shared shift unit (`shift/m64k_shift_rotate_shared.sv`) | FSM, response, registers of a first pass | accept ordinary, accept two-pass, second pass, cancel, hold | a response consumed and a request accepted at one edge; two passes over one network; the shift by a whole register | the passes never overlap; latency does not depend on history |
| Reference circuit (`shift/m64k_shift_rotate.sv`) | none | every shift and rotate | rings of 9, 17, 33 and 65 bits; ASL overflow from masks | the units agree with it output by output |

The units do not talk to each other: they share the protocol, and (network and shared unit) a
datapath. The executable semantics (`model/m64k/scalar.py`, `model/m64k/multiply_divide.py`) are
pure functions.

### Around the core

| Component | State | What is hard | What makes it correct |
|---|---|---|---|
| Verilator publication (`scripts/run_verilator_build.py`) | directory entries of an executable and its pending name, their contents, what is durable | crashes, kills and power loss between build, validation, synchronization and rename; overlapping runs | the executable is always whole; success is durable; a run stopped before its rename keeps the previous one, one stopped after it leaves a whole new one |
| Manual cache (`scripts/fetch_reference_manuals.py`) | cached and pending files, what of them a power loss spares, what each run has seen so far | five looks at a file by name while another run may replace it; partial downloads, wrong bodies, failing calls, kills, power loss; what a failed run leaves | a name holds what it held or the whole manual; success is of a whole cache; a good manual never goes away; repeated fetching converges |
| ASIC flow (`asic/Makefile`, `asic/physical/Makefile`, `scripts/run_asic_container.py`, `check_asic_manifest.py`, `check_yosys_log.py`, `check_yosys_sequential.py`, `summarize_yosys_stat.py`, `summarize_yosys_equivalence.py`, `asic/physical/prepare_klayout_technology.py`) | the files of a build directory: log, statistics, netlist, records, technology, evidence; the repository they are made from | edits while a recipe runs; recipes that fail or are killed between their files; records beside files of another run | a record is of one run that passed every gate and names what it was made from; a make that passes has left such a record |
| Physical audit (`asic/physical/check_logs.py`) | none | what several flows have left in one directory: shards, repeated keys, reports and metrics that disagree | evidence it lets pass is complete and nowhere at odds with itself |
| Contract, inventory and document validators (`scripts/check_m64k_native_contracts.py`, `check_rob_lifetime_contract.py`, `check_uop_completion_contract.py`, `check_first_product_alignment.py`, `check_documentation.py`, `bin_to_byte_hex.py`) | none | the documents' own contents | accept exactly the documents they describe |
| Interface bundles and packages (`rtl/interfaces`, `rtl/packages`) | none yet: nothing drives them | | |
| Architecture documents, ISA data (`docs/m64k`, `isa/native`) | none | | consistency between documents |
| Testbenches, checkers, miters (`verification`) | none of the product's | | |

`PROJECT.json` lists the hazards found in this code with the line where each bites and the
property that covers it.

## Modules

| Module | Models | Kind |
|---|---|---|
| `Bits` | vectors of *w* bits as naturals: truncation, sign, two's complement, rotation, reversal, or | operators |
| `ExecuteBackend` | tags, result records and the sampling of the ports at an edge | shared definitions |
| `TaggedQueue` | what an exact-tag squash leaves of a queue of operations | operators |
| `ExecutionUnit` | what every unit promises: a queue of accepted operations, a published response, exact-tag squash | abstract specification |
| `ArithmeticModel`, `ScalarModel`, `ShiftModel` | the functions of `multiply_divide.py` and `scalar.py` | operators |
| `ScalarDivider`, `ScalarMultiply`, `IntegerExecute`, `RotateExtendIterative`, `ShiftRotateShared` | the units, one action per branch of their clocked process | state machines |
| `ShiftRotateFast`, `ShiftRotateReference` | the combinational circuits | operators |
| `BuildPublication` | `run_verilator_build.py`, its command and the file system | state machine |
| `ManualCache` | `fetch_reference_manuals.py`, several runs of it, the server and the file system | state machine |
| `PhysicalAudit` | `check_logs.py`, and what consistent and what clean evidence is | operators |
| `AsicFlow` | the recipes of both Makefiles with the scripts they run, and the edits beside them | state machine |
| `MC*` | instances for TLC: widths, requests, and the next-state relations that explore each request once | |
| `ExecuteBackendProofs` | lemmas about the operators the units share | proofs |
| `ScalarDividerProofs`, `ScalarMultiplyProofs`, `IntegerExecuteProofs`, `RotateExtendProofs`, `ShiftRotateProofs` | theorems about the units | proofs |
| `ManualCacheProofs`, `ToolFlowProofs` | theorems about the manual cache, and about the publication and the ASIC flow | proofs |

```
Bits <- ExecuteBackend <- ScalarDivider, ScalarMultiply, IntegerExecute,
                          RotateExtendIterative, ShiftRotateShared   (EXTENDS)
TaggedQueue <- ExecutionUnit                                             (EXTENDS)
each unit      -- INSTANCE --> ExecutionUnit (refinement), ArithmeticModel | ScalarModel | ShiftModel
ShiftRotateShared -- INSTANCE --> ShiftRotateFast (datapath), ShiftRotateReference (comparison)
PhysicalAudit <- AsicFlow                                                (EXTENDS)
ExecuteBackend, TaggedQueue <- ExecuteBackendProofs                      (EXTENDS)
a unit, ExecuteBackendProofs <- the unit's proofs                        (EXTENDS)
ManualCache <- ManualCacheProofs; BuildPublication, AsicFlow <- ToolFlowProofs  (EXTENDS)
```

### How a unit's model reads

A step is a rising clock edge. `Clock(sq, rdy)` takes the squash and the consumer's ready that the
edge samples; requests come from the constant `Request`, restricted by the module's assumption to
what the dispatcher may present (a double-width division has the fused form, for instance).
The actions are the branches of the `always_ff` block, the operators they use its functions and
`always_comb` assignments, under the source's names where TLA+ allows them. Widths are constants:
`XLEN` stands for 64 and `Width[s]` for 8, 16, 32 and 64, so that the same definitions run on a
4-bit machine and are proved for all. A bit vector is a natural number; `Truncate`, `Negated` and
the explicit widths of `TypeOK` keep the arithmetic modulo the register's size.

`edge`, `request`, `integrity_error` and, in `BuildPublication`, `before` are history variables: no
action reads them, properties do; so are `initial` in `ManualCache` and `make.steady` in `AsicFlow`,
which goes from a make into its records. `None` in a register means that it was never written, or, in the
multiplier, that its valid bit is clear: the code reads the payload only under that bit.

`\* Defect:` definitions are the project's mutants: forms of a definition with a plausible error,
used by no specification, that `PROJECT.json` pairs with the property each one must break.

### How `BuildPublication` reads

`pc` is the next statement of `main` (lines 64-87) of each runner. An entry of the directory is
the file it names; `durable` is the set of entries for the executable that a power loss may leave
(a rename adds to it, synchronizing the directory reduces it to one); a file not in `synced` may
hold anything after a power loss. `UNFINISHED` is a file whose writer has not ended: it already
passes the validation, which looks at the size, the magic number and the mode. The command and the
file system are the environment: a command that exits with zero has finished its file if it wrote
one, and ends with the run it belongs to. Validation is one step: its four looks at one pending file
can be told apart only by an overlapping runner, and the model already lets that runner act before
and after it.

### How `ManualCache` reads

A run of the script is at one `step` of one document. A *body* is what a file or a response holds,
reduced to what the validation sees of it: header, end marker, the tools that complain, page count,
identity markers. `directory` is what each name holds, `synced` the pending names whose data was
synchronized, `survivors` what a power loss may leave under each manual's name: a rename adds the
new contents to it (any contents, were the file not synchronized) and nothing ever takes the old
entry out, because the code does not synchronize the directory. Validation is five steps, one for
each time the code opens the file by name, so another run may replace the file between two looks.
The server may answer with any body and may cut it short. `Fails` is an `OSError` that `main`
catches, `InspectionFails` one inside the inspection, `Raises` what nothing catches; `Kill` cleans
nothing up. Overlapping fetches are excluded (`ProcessAssumption`): they share one pending name, as
the runners of `BuildPublication` do; any number of `--check` runs may overlap a fetch.

### How `AsicFlow` reads

A build directory is of one of three kinds. For a design with state (`SEQUENTIAL`) the recipe is
manifest check, Yosys (log, statistics and netlist, in that order, as three steps), sequential-cell
gate, warning gate, record (`qor.json`); for the fast shifter (`COMBINATIONAL`) there is no cell gate
and an equivalence recipe may follow, with its own log, gate and record; the third is place and
route (`PHYSICAL`), with the preparation of the KLayout technology and the audit. A file is modelled by
what it was made from and the diagnostics it holds; a hash by the contents it is of. `Edit` changes a
source, a manifest or the lock at any time; `ToolFails` and `Kill` stop a recipe and leave its files,
a torn one included. A record is opened (which empties it) and then written, as two steps. The flow's
other targets with state and without (`native-divider-synth`, `native-multiply-synth`,
`native-rotate-extend-synth`, `native-integer-synth`, ...) have the same recipes with other names and
minimum cell counts.

`PhysicalAudit` sees evidence as the set of logs with diagnostics, the report families with their
shards, the key/value pairs of the metrics file in order, and the lines of the final report. JSON
values keep what Python's comparison sees of them: a `bool` equals an `int`, NaN equals nothing.

## Runs

| Run | Instance | Question |
|---|---|---|
| `divider` | 4 bits; every size, form, signedness, dividend and divisor alone; two tags, four requests per tag, all squashes, resets, readiness | Is every iteration's recurrence right and every answer integer division's; does the FSM implement `ExecutionUnit`, answer, and become ready again? |
| `multiply_control` | 4 bits, two tags, two requests per tag | Does the pipeline implement `ExecutionUnit` of capacity three, and answer? |
| `multiply_arithmetic` | 8 bits; every operand of quarter, half and full width | Is the product kept through the reduction and is every answer exact? |
| `integer_execute` | 4 bits; every request once, then few | Do flags order the compared integers; is the pipe an `ExecutionUnit`? |
| `rotate_extend` | 16 bits, two tags; every count, direction and extend bit at four sizes, few of them together | Is the ring partly rotated at every stage; does the FSM implement `ExecutionUnit`, and answer? |
| `shift_shared` | 16 bits, two tags; every operation and count at four sizes, few of them together | Are the passes disjoint, every output the reference circuit's, every answer right, the latency independent of history? |
| `manual_cache` | two documents, seven bodies, a fetch and a `--check`; fourteen manifests | Does the cache hold nothing but whole manuals, is success true, is a good manual never lost, does fetching converge? |
| `asic_flow` | one source, its reference and a miter, two images, two makes with an edit under each; every kind of directory | Are records of one run that passed and, of an undisturbed recipe, of what they name; is evidence that passes consistent? |
| `asic_evidence` | as `asic_flow`, one make | *violated*: see below |
| `build_publication` | one runner, four files | Is the executable whole, success durable, and what is left by a run that is stopped? |
| `build_publication_overlap` | two runners, three files | *violated*: see below |
| `shift_shared_ready` | as `shift_shared`, few requests | *violated*: see below |

**Bounds and why they are enough.** A unit's control does not depend on the operands' values except
through counters and faults, so few requests that reach each counter length and each fault are enough
to interleave, with two tags, the least that distinguish an exact-tag squash from any other; a
unit holds at most four operations, so two tags also give every pattern of reuse among neighbours.
For the arithmetic every request runs from reset to its end by itself; that each answer is
independent of what came before is what `ImplementsUnit` says of the interleavings. The runs `divider`,
`rotate_extend` and `shift_shared` do both at once: a request with the zero tag has the unit to itself from
reset to its end, and few requests with two other tags interleave freely. `multiply_control` and
`multiply_arithmetic` do one each, because every operand of 8 bits is too much for liveness. The divider at 4
bits has a size that fills the register and one of half of it, single and double dividends, one to
four iterations, and every sign combination. The multiplier needs 8 bits for a size that is a
quarter of the register, where products are corrected in less than a register. The shift units
need the relation of 8, 16, 32 and 64 to a six-bit count: 2, 4, 8 and 16 with four bits have the same
relations (counts above the width, reductions by one, two and four rings, a full-width second
pass); operands of the larger sizes are single bits, all, none and (shared unit) every length of
sign, because a rotation moves bits and never combines them. Four files let a publisher hold an old
executable, a new one and a pending one while a failed directory synchronization keeps a fourth
alive; more only repeat that.

The manual cache needs two documents for one to be fetched while another's success is remembered,
and bodies that each differ from a manual in what one look sees: an error page, a cut manual, an
outdated one, a cut one with both markers, an empty file. Manifests are the sound one, three whose
digest is of one of the wrong bodies, and ten each wrong in one respect. An inspection may raise at
its last look (`MCNext`); at the others it ends the same way as the look itself. The ASIC run starts
two makes, the least for one to meet what another has left, and each sees one edit, which already
falls between any two reads; logs are odd in one respect at a time. Of the evidence, one part at a time
takes every form, and the values of one metric are combined with the report's counts, the one place
where two parts are compared. For the properties that are proved, the theorems cover every value of the
constants; for the others, the bounds are what has been shown.

**Fairness.** `Fairness` of a unit assumes that the clock runs (`WF_vars(Next)`) and that the consumer of a
response does not refuse it for ever (weak fairness of responding, or of advancing, with
`response_ready` high). The first is what a clock is; the second is the consumer's side of the
handshake: without it no unit can promise anything, because an irrevocable response blocks it.
Squashes and resets are never assumed to stop; the liveness properties say what they excuse.
`BuildPublication` and `AsicFlow` have safety properties only. In `ManualCache` a run that can go on does
(`WF_vars(Validate(p) \/ Download(p))`): the process is scheduled, and the server answers and ends its
response. The second half is an assumption about the server, because the code gives `urlopen` no
timeout. `FetchingConverges` further supposes, in its own statement, that someone repeats the fetch and
that faults and wrong responses end at some time; it says that then every manual is cached for good,
whatever the faults have left.

## What disagrees with the repository's own words

- `shift_shared_ready`: `verification/rtl/m64k_shift_rotate_shared_checker.sv:48` asserts
  `accepts_ordinary && response_ready |=> request_ready`. The unit's `request_ready` (line 221) is,
  while it holds a response, the `response_ready` of the *same* cycle, so the assertion fails when
  `response_ready` falls between the two edges. The counterexample takes two edges.
- `build_publication_overlap`: `README.md:71` says that an interrupted build cannot replace the last
  valid binary with a partial artifact. Two overlapping runs of one output share one pending name. In
  the counterexample the command of `r1` exits with zero without having written a file; `r2` starts and its
  command begins to write the pending file; `r1` validates, synchronizes and renames that file; a
  power loss ends both, and the partial file stays. With one run at a time the sentence is a theorem
  (below).
- `asic_evidence`: `asic/physical/README.md:22` calls missing, malformed, non-finite, conflicting duplicate
  and contradictory required evidence fatal. `check_logs.py:73` compares the values of a repeated key
  with Python's `!=`, for which `false` is `0`, and line 86 rejects a bool only as the last value of its key:
  a metrics file that gives a required key once as `false` and then as `0` passes. `Clean` is the README's
  sentence and is violated; `Consistent`, which lets an overridden value be a bool of the same value and
  nothing else, is what the audit ensures (`asic_flow`, and a theorem).

One remark that no run states as a violation: the hashes of a record are taken at the end of its
recipe (`summarize_yosys_stat.py:62-63`), of the manifest and the sources as they are then. A record
written while something was edited under the recipe (`steady` is false) may therefore name sources, a
miter or an image other than those the tools read; `SteadyRecordsAreReproducible` is about the others.

## What is proved

Every theorem is about `Spec` without fairness and holds for every value of the constants the
assumptions admit. Of the assumptions, `WidthAssumption`, `RequestAssumption` and `TagAssumption` are what
the types of the ports say and what the dispatcher may present; the others are:

- `PowerAssumption` (`ScalarDivider`, `ScalarMultiply`, `IntegerExecute`, `RotateExtendIterative`,
  `ShiftRotateShared`) and `LengthAssumption` (`ExecuteBackend`): 2^(n + 1) is twice 2^n, for each n up to the
  widest register the module has. It is what `^` means; it has to be
  stated because the provers leave exponentiation uninterpreted. Everything else the proofs need of
  powers of two is derived from it by induction (`PowersAdd`).
- `NoneAssumption` (`ExecuteBackend`), `AbsenceAssumption` (`ScalarMultiply`): the mark of an absent value is
  no register value, request or payload.
- `BitwiseAssumption` (`IntegerExecute`): AND, OR and XOR, constants of that module, return registers and
  act on the low bits of their operands alone.
- `MarkAssumption`, `TechnologyAssumption`, `LockAssumption` (`AsicFlow`): a missing or torn file is told
  apart from a whole one, an image's technology has units, and a lock that can be read names an image.

### The units

Each unit has three to five theorems: its registers keep their widths, its arithmetic invariant holds,
and it implements `ExecutionUnit`, whose `Outcome` is the executable model. The last says the most: what
the unit publishes is what `scalar.py` or `multiply_divide.py` prescribes for a request it accepted,
in order, once, and exactly the operations whose tag is squashed before they are published are
dropped, whatever is squashed, stalled, accepted or reset at the same edge.

The refinement proofs have one shape. The mapping is the unit's own: the queue is the operations it
holds, the response what a consumer can see. `ClockImplements` says that an edge whose queue is what the
squash leaves of the operations held and the one offered, kept or with its oldest published,
is a step of `ExecutionUnit`; then each action of the unit is shown to be such an edge.
`Surviving` is a recursive function of the queue; `ExecuteBackendProofs` proves by induction what it
leaves of a queue when a stage is added behind it (`YoungestSurvives`, `StageSurvives`).

`ScalarDividerProofs`
: `DividerIsTyped`, `RecurrenceHolds`, `EveryResponseIsArchitectural`, `DividerImplementsUnit`, for every
  register width up to 255 and every set of even operand sizes. `TypeOK` is inductive as it stands, but not trivially: it needs
  that a restoring step returns a remainder below the divisor and one bit (`RestoreIsWord`), that two
  bits shifted into the dividend register stay in it (`TwoBitsShiftedIn`), that an aligned magnitude
  fits (`DividendIsWord`), and that a restored sign stays within the operand (`SignedWordFits`).
  `Recurrence` is not inductive: it says what the parts of the dividend register
  mean, but not that nothing lies between them. `RecurrenceInvariant` adds that, as an existential
  over the two parts, and `OperationUnderWay` that every register of the operation is its request's. A
  restoring step is then one step of long division (`RestoreDivides`), and two of them keep the
  reassembled dividend (`StepsReassemble`). At the last iteration nothing of the dividend is left, so
  quotient and remainder are the ones integer division has (`DivisionIsUnique`), and the signs,
  the overflow flag and the narrowed results follow case by case (`LastStepIsArchitectural`).

`ScalarMultiplyProofs`
: `MultiplierInvariantHolds`, `MultiplierIsTyped`, `ReductionsKeepTheProduct`, `MultiplierImplementsUnit`. The
  invariant `StagesAreComputed` says that each stage is a function of one prepared request: the typing,
  the product and the answer are then facts about that function. The product is schoolbook
  multiplication of halves with a correction of the high half for negative operands
  (`SchoolbookProduct`, `CorrectedProduct`), narrowed by operand size (`NarrowProductIs`), and the
  overflow rule is that of the executable model (`SignedOverflow`, `UnsignedOverflow`). The pipeline's
  refinement is proved stage by stage, moving (`AdvanceImplements`) and stalled (`StallImplements`).

`IntegerExecuteProofs`
: `PipeInvariantHolds`, `PipeIsTyped`, `ComparisonsOrderOperands`, `PipeImplementsUnit`. The one adder with an
  inverted operand and a carry in is addition and subtraction (`Addition`, `Subtraction`), its carry is
  the unsigned borrow and its overflow the signed one; from these the flags of a comparison order the
  operands as signed and as unsigned integers (`ComparisonFlags`). The invariant adds to `TypeOK` that
  a response published at the last edge is its request's.

`RotateExtendProofs`
: `RotateIsTyped`, `StagesRotate`, `RotateImplementsUnit`, for a register of 2^`Stages` bits and operand sizes
  of which eight rings cover every count. `RotateInvariant` adds to `TypeOK` and
  `RingIsPartlyRotated` that the operation's registers are its request's and that a published response is
  architectural; the ring's width is not inductive without its meaning. A rotation exchanges the
  two parts of a ring (`RotationExchanges`), so two of them add up (`RotationsAdd`), and each stage adds
  the next bit of the count (`NextLowBits`, `StageRotates`); the skipped stages are never wanted because
  the reduced count is below the ring's length (`CountIsReduced`: at most seven rings are subtracted, from
  `WidthAssumption` alone). For the right rotations, the reversal of a ring in two parts is the
  reversals of the parts exchanged, by induction on its length (`ReversalExchanges`), hence
  `ReversedRotation`.

`ShiftRotateProofs`
: `SharedIsTyped`, `PassesComplement`, `SharedMatchesReference`, `SharedLatencyIsFixed` (an action property) and
  `SharedImplementsUnit`, for a register of 2^`Stages` bits and operand sizes that divide it and of which eight
  rings cover every count. They are also all that is proved about `ShiftRotateFast` and `ShiftRotateReference`.
  The argument goes from the circuits to the state machine:
  - *Stages compose.* Each stage of a barrel moves by a power of two or not at all, and what it moves in is
    the same for all: moves of one kind add up (`FilledAdds`, `FilledRightAdds`, `RotationsAdd`, `MovesAdd`), so by
    induction on the stage six of them are one move by the count (`NetworkMoves`; `BarrelRotates`,
    `BarrelShiftsLeft` and `BarrelShiftsRight` for the reference's).
  - *The network computes the operation.* A shift to the left is one to the right of the reversed register
    (`LeftShifts`); a shift to the right is one of the extended operand (`ExtensionShifts`); a rotation of a
    register filled with copies of the operand is a rotation of each copy (`CopiedOperand`,
    `CopiesRotate`), which is where the sizes have to divide the register. Carries are the last bit out
    (`OrdinaryCarry`, `ReferenceCarries`).
  - *Overflow.* The network asks at each stage it takes whether the bits that stage moves into or past the sign
    are alike; the reference asks it once, of the bits the whole count moves; the model asks whether the signed
    product fits. `SignChanges` says that the product fits exactly when those bits are alike,
    `StagesChangeSign` that the stages' answers make the one of the whole count; `NetworkOverflows` and
    `ReferenceOverflows` are the results.
  - *Two passes make a rotation.* The first pass moves the operand one place with the extend bit and then by the rest of
    the reduced count, the second the other way by its complement in the ring; they put the two parts of the
    ring where a rotation does (`LeftPasses`, `RightPasses`), in disjoint bits, so their `BitwiseOr` is their sum
    (`OrJoins`). The complement that is a whole register, beyond the network, is a case of its own. `PassesJoin` is the result for a request, `ReferenceAnswers` the same for the rings of the
    reference circuit.
  - *The state machine.* `TypeOK` is not inductive: the or of two registers says nothing about the answer.
    `SharedInvariant` adds that between the passes the registers are those of `request`
    (`PassUnderWay`), that a published response is the answer to it (`ResponseIsAnswer`), and that the last
    accepted operation is the one under way (`EdgeIsUnderWay`), which the latency needs. The theorems
    follow from it and `AnswerIsArchitectural`.

`ExecuteBackendProofs`
: what the above share: division and remainders, truncation and two's complement, powers of two, what
  survives a squash, what a consumer sees. `NaturalInduction` is stated for a *set* of naturals, because the
  provers do not instantiate a rule about a predicate; the facts about recursive functions are
  proved with it, after showing that the function exists (`SurvivalExists`, `ReversalExists`).

### Around the core

`ToolFlowProofs`, publication
: for one runner (`Runner = {r}`) and any set of files: `OneRunnerPublishesComplete`,
  `OneRunnerSucceedsDurably` and `OneRunnerFailsSafely` (an action property: what the step that stops
  a run leaves). The script reports an error after the rename as it does one before it, with exit
  status 1, so the status does not say whether the executable was replaced; the last theorem therefore speaks
  of where the run was stopped. None of the three is inductive: the
  invariant `PublicationInvariant`, which the run checks too, adds that every durable entry is whole
  and synchronized, that the pending name is the running command's own file until the command ends,
  that a validated file stays whole, that until its rename a run has left the executable
  alone, and that the one it found survives a power loss until the directory is synchronized. `PublicationIsInvariant` states it. The only assumption is that `None` is not a file.

`ManualCacheProofs`
: for any number of `--check` runs beside one fetch, any manifest, bodies and server: `NothingElseIsCached`,
  `SuccessIsTrue` and `ReplacementsAreOfWrongManuals` (an action property). None is inductive: a
  validation is spread over five steps, and its conclusion is true only if what the earlier looks saw
  still holds at the last. `CacheInvariant` adds `KnowledgeHolds`, which says for each step what the run
  has established about the file as it is *now*, that a pending file under validation is
  synchronized, and that only the fetch writes. It survives the fetch's rename under a concurrent
  `--check` because the rename only replaces a file whose validation has failed by one whose
  validation has not: a `--check` without errors so far is looking at the manual itself, whose
  digest the renamed file shares. `InvariantHolds` states it; the run checks it too.

`ToolFlowProofs`, ASIC flow
: for any files, manifests, locks, evidence and number of makes: `RecordsAreOfPassedRuns`,
  `SteadyRecordsReproduce`, `AuditedEvidence`, `PassedEvidenceIsConsistent`, `FlowIsTyped`, `TechnologyAgrees` and
  `PassedMakesAreRecorded` (an action property). The invariant `FlowInvariant` rests on
  three ideas: a record's *contents* satisfy the gates by themselves (`QorPassed`,
  `EquivalencePassed`), so a record stays true when the files beside it go on changing; the
  files a recipe has reached are those it made itself, so what an earlier make left is never judged or
  recorded in their place; and while a recipe is steady they are made from what the tree still
  holds. `AuditedEvidence` is about `check_logs.py` alone: the judged values are the last of their keys,
  and the proof carries equality back to every earlier value through the coalescing of keys. It carries back
  the value and not the kind, which is why the conclusion is `Consistent` and not `Clean`.
  A second invariant, `RecordInvariant`, rests on the first. It says what form everything that is read
  has (a record never names a source that is not there, because the manifest check came first), that a
  technology file is missing or corrected and never torn, because it is replaced whole, and, step by
  step, which of the records a recipe has already written still stand (`KeptAt`): an
  edit does not touch them, and nothing the recipe does between its first record and its end rewrites
  what they name. `FlowIsTyped`, `TechnologyAgrees` and `PassedMakesAreRecorded` follow from it.

### Only model-checked

- Liveness: `UnsquashedIsAnswered`, `AlwaysReadyAgain`, `FetchingConverges`. The prover has no rules for
  fairness and enabledness.
- That two overlapping runs of `BuildPublication` can publish a partial file is a counterexample, not a
  theorem; everything proved about it is for one run at a time.

## Not modelled

- Two fetches of the manuals at once, two makes in one build directory, and a killed make whose container
  goes on: excluded by assumption, because the code does nothing about them.
- The lint, synth-check and netlist-equivalence recipes of `asic/Makefile`: each makes a log that no other
  step reads and passes it to the warning gate that `AsicFlow` models in the others.
- What Yosys, OpenROAD, docker, Poppler and the server compute: any outcome is possible.
- The contract, alignment and documentation validators, and `bin_to_byte_hex.py`: one pass over
  documents, compared with literals of the same meaning; there is no state, order or failure in
  them, and a model would repeat the literals.
- Interfaces and packages: no behaviour until something drives them. The ROB, retirement, memory order
  and traps exist as documents only: there is no code to be faithful to. For the same reason the
  units are not composed behind a dispatcher: that a tag is not reused before its answer or its
  cancellation is a contract on code that does not exist yet, and a composition would check a
  dispatcher invented here.
- Unknown values (`x`) of registers before reset: reset precedes every use, and the registers reset does
  not clear are `None` until written. An encoding of `operand_size` or `operation` outside its
  enumeration is presented only to the integer pipe, the one unit that checks for it.

## Plan

Done, in this order: the protocol and its abstract specification; the divider with its proof; the
multiplier; the integer pipe; the iterative rotate; the network and the shared unit; the reference
circuit; publication with its proof; the manual cache with its proof; the ASIC flow and its audit with
their proof; the arithmetic of the divider, the multiplier, the integer pipe and the iterative rotate,
and their refinement of `ExecutionUnit`, proved; the rest of the ASIC flow's properties, proved; the
shared shift unit, with its network and the reference circuit, proved.

Next, to model: the backend that composes the units, when the repository has its dispatcher; the
miter's treatment of unsupported operations in the network.

Every safety property that a passing run checks is now a theorem.
Left to TLC for good are the liveness properties. Worth proving, if the code comes to rely on it: that
some file of one run's own making is published when the runners of `BuildPublication` take turns, which a
lock in the script would guarantee.

## Running

```
tlc -config ScalarDivider.cfg MCScalarDivider.tla
tlapm ScalarDividerProofs.tla
```

Each run's module and configuration are in `PROJECT.json`; all runs end within five minutes.
