------------------------------ MODULE SkillOpen ------------------------------
(***************************************************************************)
(* `Skill::open_with` (skill-format/src/lib.rs) and the reads that follow. *)
(*                                                                         *)
(* A file is a row of blocks.  The header names the manifest by its hash,  *)
(* the manifest names the routing block, the vectors, the dictionary and   *)
(* either the compressed regions or, node by node, the payloads.  What     *)
(* lies at the place of a block is that block of one of the Versions, or   *)
(* Damaged: bytes no writer wrote.  Copies cut short, overwritten in part  *)
(* by another release, or gone bad on disk are mixtures of these.  Two     *)
(* hashes are equal exactly when they are of one block of one version.     *)
(*                                                                         *)
(* open_with takes its checks in the order of the code; a damaged block    *)
(* reads as anything its parser may find in it.  Once the file is open,    *)
(* threads share it: a compressed region is inflated at the first touch    *)
(* and kept in a OnceLock.                                                 *)
(***************************************************************************)
EXTENDS PayloadRanges, FiniteSets

CONSTANTS
  Versions,   \* the releases of one container whose blocks can meet in a file
  Damaged,    \* what is at a place no version wrote
  Payloads,   \* nodes with a payload
  RegionOf,   \* the region a payload is stored in
  Covers,     \* the payloads hashed into the commitment nearest above one
  Keys,       \* signing keys
  Dict,       \* the dictionary the versions that use one are written with
  Readers,    \* threads that share the opened file
  Openings    \* what open_with can be called with: a set of Opening

NONE == "none"
Regions == {"hot", "cold"}

\* Faults of the header, by the field that is wrong.  "short" is a file that
\* ends inside it, "count" is sig_count, "place" manifest_off and _len.
HeaderRefusal ==
  [short |-> "Truncated", magic |-> "BadMagic", major |-> "UnsupportedMajor",
   features |-> "UnknownFeatureFlags", reserved |-> "ReservedNonZero",
   length |-> "LengthMismatch"]
Faults == DOMAIN HeaderRefusal \cup {NONE, "minor", "count", "place", "root"}

\* What a publisher can have got wrong in a file it then committed to, by the
\* refusals open_with has for it.
FlawRefusals ==
  [sections |-> {"Truncated", "ReservedNonZero", "OffsetOverflow",
                 "RangeOutOfBounds", "SectionMisaligned", "DuplicateSection",
                 "UnknownSection", "SectionCountMismatch",
                 "SectionLenNotMultiple", "DeclaredLenMismatch"},
   noskill |-> {"RoutingEmpty"},
   norouting |-> {"RoutingUncommitted"},
   regions |-> {"OffsetOverflow", "RangeOutOfBounds", "DeclaredLenMismatch"},
   graph |-> {"RootHasNoCommitment", "NotPreOrder", "ObligationCycle",
              "StringIndexOutOfRange", "HashIndexOutOfRange"},
   segments |-> {"SegmentCountMismatch", "PortableClaimOnNonWasm",
                 "StringHeapUnsorted"},
   roots |-> {"RoutingRootNotTopLevel"},
   novectors |-> {"EmbeddingUncommitted"},
   nohashes |-> {"UncommittedRegion"}]
Flaws == DOMAIN FlawRefusals \cup {NONE}

\* How a version is written: what Builder::build chose, and its flaw.
Shape ==
  [tables : {"raw", "zstd"},         \* the manifest's sections
   zstd : SUBSET Regions,            \* the regions stored as a frame
   dict : BOOLEAN,                   \* compressed with Dict
   vectors : BOOLEAN,                \* carries a vector per skill
   signers : SUBSET Keys,
   flaw : Flaws]

Places == Versions \cup {Damaged}
File ==
  [header : Versions, fault : Faults,
   sigs : Places, routing : Places, vectors : Places, manifest : Places,
   payload : [Payloads -> Places],
   zero : [Regions -> BOOLEAN]]      \* bytes of a region no node claims are zero

Policy == [keys : SUBSET Keys, require : BOOLEAN]   \* TrustPolicy

Opening ==
  [file : File, shape : [Versions -> Shape], policy : Policy,
   dict : {NONE, "other", Dict},
   nodes : Seq(PayloadOf), regionLen : [{0, 1} -> 0..Top]]

ASSUME OpenAssumption ==
  /\ Damaged \notin Versions
  /\ RegionOf \in [Payloads -> Regions]
  /\ Covers \in [Payloads -> SUBSET Payloads]
  /\ \A p \in Payloads : p \in Covers[p]
  /\ Dict \notin {NONE, "other"}
  /\ Places \cap {NONE, "closed", "refused", "RegionHashMismatch",
                  "PayloadHashMismatch"} = {}
  /\ Openings \subseteq Opening

VARIABLES
  file, shape, policy, dict,   \* what open_with is called with
  pc,       \* the check open_with comes to, "open", or its refusal
  vouched,  \* the keys of the policy whose signature verified
  tables,   \* the version the manifest's tables read as
  vectors,  \* the version of the vectors found, or NONE
  kept,     \* hot and cold: what each OnceLock holds
  reading   \* what each thread is doing

inputs == <<file, shape, policy, dict>>
found == <<vouched, tables, vectors>>
shared == <<kept, reading>>
vars == <<inputs, pc, found, shared, rangesVars>>

\* The version this file is one of, if it is one of any.
This == file.header
Written == shape[This]

Idle == [at |-> "idle", op |-> NONE, of |-> NONE, todo |-> {},
         region |-> NONE, answer |-> NONE]

Init ==
  /\ \E o \in Openings :
       /\ file = o.file /\ shape = o.shape
       /\ policy = o.policy /\ dict = o.dict
       /\ nodes = o.nodes /\ regionLen = o.regionLen
  /\ pc = "header"
  /\ vouched = {}
  /\ tables = NONE
  /\ vectors = NONE
  /\ kept = [r \in Regions |-> NONE]
  /\ reading = [t \in Readers |-> Idle]
  /\ RangesInit

-----------------------------------------------------------------------------
(* open_with, check by check. *)

Goto(place) ==
  /\ pc' = place
  /\ UNCHANGED <<inputs, shared, rangesVars>>

\* Refuse for the flaw the publisher left, or go on.
FlawOr(flaw, place) ==
  IF Written.flaw = flaw
  THEN \E e \in FlawRefusals[flaw] : Goto(e)
  ELSE Goto(place)

\* Header::parse.
CheckHeader ==
  /\ pc = "header"
  /\ Goto(IF file.fault \in DOMAIN HeaderRefusal
          THEN HeaderRefusal[file.fault] ELSE "signatures")
  /\ UNCHANGED found

\* What lies where the header puts its signature entries.
SigsFound ==
  IF \/ file.fault = "count"
     \/ /\ file.sigs \in Versions
        /\ Cardinality(shape[file.sigs].signers) # Cardinality(Written.signers)
  THEN Damaged ELSE file.sigs

HasEntries == Written.signers # {} \/ file.fault = "count"

\* Faulty: a signature is not held against the digest of this header.
EntryUnbound(k) ==
  IF SigsFound # Damaged /\ k \in shape[SigsFound].signers
  THEN {"valid"} ELSE {"skipped"}

\* What sig::verify can make of key k: it skips an entry whose key id or
\* algorithm it does not know, and a key without an entry.
Entry(k) ==
  IF SigsFound = Damaged
  THEN {"skipped", "invalid"} \cup
         (IF k \in Written.signers /\ file.fault = NONE THEN {"valid"} ELSE {})
  ELSE IF k \notin shape[SigsFound].signers THEN {"skipped"}
  ELSE IF SigsFound = This /\ file.fault = NONE THEN {"valid"} ELSE {"invalid"}

\* sig::verify over the digest of the 64 bytes of the header.
CheckSignatures ==
  /\ pc = "signatures"
  /\ \/ /\ HasEntries /\ SigsFound = Damaged
        /\ \E e \in {"Truncated", "ReservedNonZero", "DuplicateKeyId"} : Goto(e)
        /\ UNCHANGED vouched
     \/ \E entry \in [Keys -> {"skipped", "valid", "invalid"}] :
          /\ \A k \in Keys :
               entry[k] \in (IF HasEntries THEN Entry(k) ELSE {"skipped"})
          /\ vouched' = {k \in policy.keys : entry[k] = "valid"}
          /\ Goto(IF \E k \in policy.keys : entry[k] = "invalid"
                  THEN "BadSignature"
                  ELSE IF policy.require /\ vouched' = {}
                  THEN IF HasEntries THEN "UntrustedKey" ELSE "Unsigned"
                  ELSE "bounds")
  /\ UNCHANGED <<tables, vectors>>

\* manifest_off + manifest_len against the length of the file.
CheckBounds ==
  /\ pc = "bounds"
  /\ \/ Goto("root")
     \/ /\ file.fault = "place"
        /\ \E e \in {"OffsetOverflow", "RangeOutOfBounds"} : Goto(e)
  /\ UNCHANGED found

\* The hash of the manifest against the one the header names.
CheckRoot ==
  /\ pc = "root"
  /\ Goto(IF file.manifest = This /\ file.fault \notin {"place", "root"}
          THEN "parse" ELSE "ManifestDigestMismatch")
  /\ UNCHANGED found

Inflates == Written.dict => dict = Dict

\* Manifest::parse.  A section inflated with another dictionary fails, or
\* comes out as other bytes of the declared length.
ParseManifest ==
  /\ pc = "parse"
  /\ IF Written.flaw = "sections"
     THEN FlawOr("sections", "routing") /\ UNCHANGED tables
     ELSE \/ /\ Written.tables = "raw" \/ Inflates
             /\ tables' = file.manifest
             /\ Goto("routing")
          \/ /\ Written.tables = "zstd" /\ ~ Inflates
             /\ \/ Goto("DeclaredLenMismatch") /\ UNCHANGED tables
                \/ Goto("routing") /\ tables' = Damaged
  /\ UNCHANGED <<vouched, vectors>>

\* Where the routing block is looked for depends on sig_count.
RoutingFound == IF file.fault = "count" THEN Damaged ELSE file.routing

\* Faulty: a block is taken when it parses.
CheckRoutingParses ==
  /\ pc = "routing"
  /\ Goto(IF RoutingFound = Damaged THEN "RoutingNotUtf8" ELSE "dictionary")
  /\ UNCHANGED found

\* check_routing_commitment.
CheckRouting ==
  /\ pc = "routing"
  /\ \/ /\ RoutingFound = Damaged
        /\ \E e \in {"Truncated", "ReservedNonZero", "RoutingNotUtf8",
                     "RoutingEmpty"} : Goto(e)
     \/ Goto(IF /\ RoutingFound # Damaged
                /\ shape[RoutingFound].flaw = "noskill" THEN "RoutingEmpty"
             ELSE IF Written.flaw = "norouting" THEN "RoutingUncommitted"
             ELSE IF RoutingFound = This THEN "dictionary"
             ELSE "RoutingHashMismatch")
  /\ UNCHANGED found

\* Faulty: whoever brings a dictionary must bring the file's.
CheckDictionaryAlways ==
  /\ pc = "dictionary"
  /\ Goto(IF ~ Written.dict /\ dict = NONE THEN "regions"
          ELSE IF dict = NONE THEN "MissingDictionary"
          ELSE IF dict # Dict \/ ~ Written.dict THEN "WrongDictionary"
          ELSE "regions")
  /\ UNCHANGED found

\* The dictionary the manifest names, after the sections were inflated.
CheckDictionary ==
  /\ pc = "dictionary"
  /\ Goto(IF ~ Written.dict THEN "regions"
          ELSE IF dict = NONE THEN "MissingDictionary"
          ELSE IF dict # Dict THEN "WrongDictionary" ELSE "regions")
  /\ UNCHANGED found

CheckRegions ==
  /\ pc = "regions"
  /\ FlawOr("regions", "graph")
  /\ UNCHANGED found

\* validate::graph up to the payload ranges: the tree, the references and the
\* edges, which PreOrderCheck, CycleFree and EdgeRules are about.
CheckGraph ==
  /\ pc = "graph"
  /\ FlawOr("graph", "ranges")
  /\ UNCHANGED found

\* check_payload_ranges.
CheckRanges ==
  /\ pc = "ranges"
  /\ RangesNext
  /\ UNCHANGED <<inputs, pc, found, shared>>

EndRanges ==
  /\ pc = "ranges"
  /\ ranges \in RangesErrors \cup {"apart"}
  /\ Goto(IF ranges = "apart" THEN "segments" ELSE ranges)
  /\ UNCHANGED found

\* check_segments and check_string_order end validate::graph.
CheckSegments ==
  /\ pc = "segments"
  /\ FlawOr("segments", "roots")
  /\ UNCHANGED found

\* check_routing_roots.
CheckRoots ==
  /\ pc = "roots"
  /\ FlawOr("roots", "vectors")
  /\ UNCHANGED found

\* What is at the place of the vectors carries the magic of a vector block.
VectorsThere ==
  /\ Written.vectors
  /\ file.vectors # Damaged => shape[file.vectors].vectors

\* embed::read and the commitment of the block it finds.  Without its magic a
\* block reads as none.
CheckVectors ==
  /\ pc = "vectors"
  /\ \/ /\ VectorsThere => file.vectors = Damaged
        /\ Goto("padding") /\ UNCHANGED vectors
     \/ /\ VectorsThere
        /\ \/ /\ file.vectors = Damaged
              /\ \E e \in {"Truncated", "ReservedNonZero", "EmbeddingShape",
                           "EmbeddingKindUnknown"} : Goto(e)
              /\ UNCHANGED vectors
           \/ IF Written.flaw = "novectors"
              THEN FlawOr("novectors", "padding") /\ UNCHANGED vectors
              ELSE IF file.vectors # This
              THEN Goto("EmbeddingHashMismatch") /\ UNCHANGED vectors
              ELSE Goto("padding") /\ vectors' = file.vectors
  /\ UNCHANGED <<vouched, tables>>

\* check_region_padding for a region stored raw; a frame needs a region hash.
RegionRefusal(r) ==
  IF r \in Written.zstd
  THEN IF Written.flaw = "nohashes" THEN "UncommittedRegion" ELSE NONE
  ELSE IF file.zero[r] THEN NONE ELSE "UncommittedNonZero"

CheckPadding ==
  /\ pc = "padding"
  /\ Goto(IF RegionRefusal("hot") # NONE THEN RegionRefusal("hot")
          ELSE IF RegionRefusal("cold") # NONE THEN RegionRefusal("cold")
          ELSE "open")
  /\ UNCHANGED found

OpenStep ==
  \/ CheckHeader \/ CheckSignatures \/ CheckBounds \/ CheckRoot
  \/ ParseManifest \/ CheckRouting \/ CheckDictionary \/ CheckRegions
  \/ CheckGraph \/ CheckRanges \/ EndRanges \/ CheckSegments \/ CheckRoots
  \/ CheckVectors \/ CheckPadding

-----------------------------------------------------------------------------
(* Reads of the opened file. *)

\* The frame stored for region r, as the version it is whole of.
Frame(r) ==
  LET parts == {file.payload[p] : p \in {q \in Payloads : RegionOf[q] = r}}
  IN  IF file.zero[r] /\ parts \subseteq {This} THEN This
      ELSE IF \E v \in Versions : parts = {v}
      THEN CHOOSE v \in Versions : parts = {v}
      ELSE Damaged

\* Skill::payload of p, once its region has been read.
Payload(p) ==
  IF RegionOf[p] \in Written.zstd THEN kept[RegionOf[p]] ELSE file.payload[p]

Ops == {"payload", "verified_payload", "verify_all"}

\* The nodes whose payloads an operation reads: those hashed into the
\* commitment that covers p, or p alone, or all for verify_all.
Reads(op, p) ==
  [payload |-> {p}, verified_payload |-> Covers[p], verify_all |-> Payloads][op]

Ask(t, op, p) ==
  /\ pc = "open"
  /\ reading[t].at = "idle"
  /\ reading' = [reading EXCEPT ![t] =
       [@ EXCEPT !.at = "reading", !.op = op, !.of = p,
                 !.todo = {RegionOf[q] : q \in Reads(op, p)}]]
  /\ UNCHANGED <<inputs, pc, found, kept, rangesVars>>

Answer(t, a) ==
  reading' = [reading EXCEPT ![t] = [@ EXCEPT !.at = "done", !.answer = a]]

Got(t, r) ==
  reading' = [reading EXCEPT ![t] =
                [@ EXCEPT !.at = "reading", !.todo = reading[t].todo \ {r},
                          !.region = NONE]]

\* region(): a raw region is returned in place, and a kept one from its cell.
Find(t, r) ==
  /\ reading[t].at = "reading"
  /\ r \in reading[t].todo
  /\ r \notin Written.zstd \/ kept[r] # NONE
  /\ Got(t, r)
  /\ UNCHANGED <<inputs, pc, found, kept, rangesVars>>

\* Faulty: a region is inflated without its hash.
TouchUnhashed(t, r) ==
  /\ reading[t].at = "reading"
  /\ r \in reading[t].todo
  /\ r \in Written.zstd /\ kept[r] = NONE
  /\ reading' = [reading EXCEPT ![t] =
                   [@ EXCEPT !.at = "inflating", !.region = r]]
  /\ UNCHANGED <<inputs, pc, found, kept, rangesVars>>

\* region(): an empty cell, and the stored frame is hashed.
Touch(t, r) ==
  /\ reading[t].at = "reading"
  /\ r \in reading[t].todo
  /\ r \in Written.zstd /\ kept[r] = NONE
  /\ IF Frame(r) # tables
     THEN Answer(t, "RegionHashMismatch")
     ELSE reading' = [reading EXCEPT ![t] =
                        [@ EXCEPT !.at = "inflating", !.region = r]]
  /\ UNCHANGED <<inputs, pc, found, kept, rangesVars>>

\* region(): the frame inflated is kept, unless another thread kept one first.
Keep(t) ==
  /\ reading[t].at = "inflating"
  /\ LET r == reading[t].region
     IN  /\ kept' = IF kept[r] = NONE THEN [kept EXCEPT ![r] = Frame(r)]
                    ELSE kept
         /\ Got(t, r)
  /\ UNCHANGED <<inputs, pc, found, rangesVars>>

\* The hash recomputed from the payloads is the one the tables hold.
Matches(p) == \A q \in Covers[p] : Payload(q) = tables

\* The nodes whose commitments an operation checks.
Checks(op, p) ==
  [payload |-> {}, verified_payload |-> {p}, verify_all |-> Payloads][op]

Fetched(t) == Regions \ reading[t].todo

\* payload answers with what it has read, verified_payload once the hash of
\* the commitment's subtree agrees; verify_all goes through every commitment,
\* and p is then read.
Finish(t) ==
  /\ reading[t].at = "reading"
  /\ LET p == reading[t].of
         op == reading[t].op
         wrong == {q \in Checks(op, p) : ~ Matches(q)}
     IN  \/ /\ \E q \in wrong : \A r \in Covers[q] : RegionOf[r] \in Fetched(t)
            /\ Answer(t, "PayloadHashMismatch")
         \/ /\ reading[t].todo = {} /\ wrong = {}
            /\ Answer(t, Payload(p))
  /\ UNCHANGED <<inputs, pc, found, kept, rangesVars>>

ReadStep(t) ==
  \/ \E op \in Ops, p \in Payloads : Ask(t, op, p)
  \/ \E r \in Regions : Find(t, r) \/ Touch(t, r)
  \/ Keep(t)
  \/ Finish(t)

Next == OpenStep \/ \E t \in Readers : ReadStep(t)

Spec == Init /\ [][Next]_vars

-----------------------------------------------------------------------------
Stages ==
  {"header", "signatures", "bounds", "root", "parse", "routing", "dictionary",
   "regions", "graph", "ranges", "segments", "roots", "vectors", "padding"}

Refused == pc \notin Stages \cup {"open"}

TypeOK ==
  /\ vouched \subseteq policy.keys
  /\ tables \in Places \cup {NONE}
  /\ vectors \in Versions \cup {NONE}
  /\ kept \in [Regions -> Versions \cup {NONE}]
  /\ \A t \in Readers :
       /\ reading[t].at \in {"idle", "reading", "inflating", "done"}
       /\ reading[t].at # "idle" =>
            pc = "open" /\ reading[t].op \in Ops /\ reading[t].of \in Payloads
       /\ reading[t].todo \subseteq Regions
       /\ reading[t].region \in Regions \cup {NONE}
       /\ reading[t].answer \in
            Places \cup {NONE, "RegionHashMismatch", "PayloadHashMismatch"}
  /\ RangesTypeOK

(***************************************************************************)
(* A file that opens is of one version, the one its header names, in all   *)
(* that open_with relies on: the tables, the routing block, the vectors,   *)
(* the dictionary, and the bytes of its raw regions that no node claims.   *)
(* A signature that verified was made over this header; a policy that      *)
(* requires one has one (lib.rs 91-204, SPEC 5 and 10.3).                  *)
(***************************************************************************)
AcceptedIsCommitted ==
  pc = "open" =>
    /\ file.manifest = This /\ tables = This
    /\ RoutingFound = This
    /\ vectors \in {This, NONE}
    /\ vectors = NONE => ~ Written.vectors \/ file.vectors # This
    /\ Written.dict => dict = Dict
    /\ \A r \in Regions \ Written.zstd : file.zero[r]
    /\ vouched \subseteq Written.signers /\ (vouched # {} => file.fault = NONE)
    /\ policy.require => vouched # {}

\* A file as it was written, by a publisher who left no flaw, opened by
\* someone its policy and dictionary allow to.
Intact ==
  /\ file.fault = NONE /\ Written.flaw = NONE
  /\ {file.sigs, file.routing, file.vectors, file.manifest} = {This}
  /\ \A p \in Payloads : file.payload[p] = This
  /\ \A r \in Regions : file.zero[r]
  /\ Written.dict => dict = Dict
  /\ policy.require => policy.keys \cap Written.signers # {}
  /\ Apart

(***************************************************************************)
(* A file that is intact is never refused, and no read of it fails: a      *)
(* dictionary it does not need, a key that did not sign it, and threads    *)
(* that inflate one region at once do no harm (lib.rs 91-204, 294-346).    *)
(***************************************************************************)
IntactNeverRefused ==
  Intact =>
    /\ ~ Refused
    /\ \A t \in Readers : reading[t].answer \in {NONE, This}

-----------------------------------------------------------------------------
(* What the file has been taken for, and what was handed out as committed: *)
(* any answer but that of `payload` in a raw region.                       *)

Admitted ==
  {v \in Versions :
     policy.require => policy.keys \cap shape[v].signers # {}}

Held == IF pc = "open" THEN This ELSE IF Refused THEN "refused" ELSE "closed"

Committed(t) ==
  /\ reading[t].at = "done"
  /\ reading[t].answer \in Places
  /\ \/ reading[t].op # "payload"
     \/ RegionOf[reading[t].of] \in Written.zstd

Handed ==
  {<<reading[t].of, reading[t].answer>> : t \in {u \in Readers : Committed(u)}}

Container == INSTANCE CommittedContainer
  WITH admitted <- Admitted, held <- Held, handed <- Handed

(***************************************************************************)
(* Opening and reading a file, whatever its blocks are of and however      *)
(* threads take turns, is the container it promises: one version, one the  *)
(* policy admits, and only that version's payloads as committed ones       *)
(* (lib.rs 91-204 and 294-427; SPEC 5: verified lazily at first touch).    *)
(***************************************************************************)
ImplementsContainer == Container!Spec
=============================================================================
