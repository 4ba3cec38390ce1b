--------------------------- MODULE ValidatorCache ---------------------------
(***************************************************************************)
(* The validator cache of GreenfieldExecutor (greenfield_executor.go),     *)
(* at the level of the machine words the two tasks touch.                  *)
(*                                                                         *)
(* e.validators is a Go slice: a header of a pointer to a backing array    *)
(* and a length.  UpdateCachedLatestValidatorsLoop assigns the header with *)
(* `e.validators = validators` and QueryCachedLatestValidators reads it    *)
(* twice (len(e.validators), then e.validators), with no lock on either    *)
(* side.  A header assignment is several stores and a header read several *)
(* loads, so each field is one step here; the order in which the compiler *)
(* emits the stores is not fixed, so the writer stores the fields in       *)
(* either order.  A validator set returned by the consensus RPC is a       *)
(* version number; SetLen gives the length of its list.                    *)
(***************************************************************************)
EXTENDS Naturals

CONSTANTS
    MaxValSets,     \* validator-set versions are 1 .. MaxValSets
    SetLen,         \* SetLen[v]: number of validators in version v
    MaxRefreshes    \* bound on the ticks of the refresh loop

Versions == 1 .. MaxValSets
Fields == {"ptr", "len"}

VARIABLES
    chainSet,     \* the validator set Greenfield's consensus RPC returns now
    cachePtr,     \* e.validators: the backing array (0 = nil)
    cacheLen,     \* e.validators: the length field
    loopPc,       \* refresh task: "tick" (waiting on the ticker) or "store"
    fetched,      \* refresh task: the set its queryLatestValidators returned
    stored,       \* refresh task: the header fields already stored
    refreshes,    \* ticks taken so far
    readPc,       \* reader (the assembler): "check", "ptr", "len" or "done"
    gotPtr,       \* reader: the array it loaded
    gotLen        \* reader: the length it loaded

vars == <<chainSet, cachePtr, cacheLen, loopPc, fetched, stored, refreshes,
          readPc, gotPtr, gotLen>>

TypeOK ==
    /\ chainSet \in Versions
    /\ cachePtr \in 0 .. MaxValSets
    /\ cacheLen \in Nat
    /\ loopPc \in {"tick", "store"}
    /\ fetched \in 0 .. MaxValSets
    /\ stored \in SUBSET Fields
    /\ refreshes \in 0 .. MaxRefreshes
    /\ readPc \in {"check", "ptr", "len", "done"}
    /\ gotPtr \in 0 .. MaxValSets
    /\ gotLen \in Nat

\* NewGreenfieldExecutor leaves the cache nil.
Init ==
    /\ chainSet \in Versions
    /\ cachePtr = 0
    /\ cacheLen = 0
    /\ loopPc = "tick"
    /\ fetched = 0
    /\ stored = {}
    /\ refreshes = 0
    /\ readPc = "check"
    /\ gotPtr = 0
    /\ gotLen = 0

-----------------------------------------------------------------------------
(* UpdateCachedLatestValidatorsLoop                                        *)

\* The ticker fires and queryLatestValidators runs: on an error the loop
\* logs and continues; otherwise it goes on to assign the result.
RefreshTick ==
    /\ loopPc = "tick"
    /\ refreshes < MaxRefreshes
    /\ refreshes' = refreshes + 1
    /\ \/ UNCHANGED <<loopPc, fetched, stored>>
       \/ /\ loopPc' = "store"
          /\ fetched' = chainSet
          /\ stored' = {}
    /\ UNCHANGED <<chainSet, cachePtr, cacheLen, readPc, gotPtr, gotLen>>

\* One store of `e.validators = validators`: field f of the header.
StoreField(f) ==
    /\ loopPc = "store"
    /\ f \notin stored
    /\ IF f = "ptr" THEN /\ cachePtr' = fetched
                         /\ UNCHANGED cacheLen
                    ELSE /\ cacheLen' = SetLen[fetched]
                         /\ UNCHANGED cachePtr
    /\ stored' = stored \cup {f}
    /\ loopPc' = IF stored' = Fields THEN "tick" ELSE "store"
    /\ UNCHANGED <<chainSet, fetched, refreshes, readPc, gotPtr, gotLen>>

-----------------------------------------------------------------------------
(* QueryCachedLatestValidators, called by the assembler                   *)

\* `if len(e.validators) != 0`: a hit goes on to load the header; a miss
\* returns the set of a synchronous queryLatestValidators.
CheckLen ==
    /\ readPc = "check"
    /\ IF cacheLen # 0
       THEN /\ readPc' = "ptr"
            /\ UNCHANGED <<gotPtr, gotLen>>
       ELSE /\ readPc' = "done"
            /\ gotPtr' = chainSet
            /\ gotLen' = SetLen[chainSet]
    /\ UNCHANGED <<chainSet, cachePtr, cacheLen, loopPc, fetched, stored,
                   refreshes>>

\* `return e.validators`: the pointer is loaded ...
LoadPtr ==
    /\ readPc = "ptr"
    /\ readPc' = "len"
    /\ gotPtr' = cachePtr
    /\ UNCHANGED <<chainSet, cachePtr, cacheLen, loopPc, fetched, stored,
                   refreshes, gotLen>>

\* ... and then the length.
LoadLen ==
    /\ readPc = "len"
    /\ readPc' = "done"
    /\ gotLen' = cacheLen
    /\ UNCHANGED <<chainSet, cachePtr, cacheLen, loopPc, fetched, stored,
                   refreshes, gotPtr>>

\* The caller uses the list (processPkgs builds the bitset over it) and
\* queries again on its next claim.
UseSnapshot ==
    /\ readPc = "done"
    /\ readPc' = "check"
    /\ UNCHANGED <<chainSet, cachePtr, cacheLen, loopPc, fetched, stored,
                   refreshes, gotPtr, gotLen>>

\* Greenfield's validator set changes.
ChangeValidators ==
    /\ chainSet' \in Versions \ {chainSet}
    /\ UNCHANGED <<cachePtr, cacheLen, loopPc, fetched, stored, refreshes,
                   readPc, gotPtr, gotLen>>

Next ==
    \/ RefreshTick
    \/ \E f \in Fields : StoreField(f)
    \/ CheckLen
    \/ LoadPtr
    \/ LoadLen
    \/ UseSnapshot
    \/ ChangeValidators

Spec == Init /\ [][Next]_vars

-----------------------------------------------------------------------------
\* The list QueryCachedLatestValidators hands to the assembler is one the
\* consensus RPC returned: its length is the length of the array it points
\* to.  The spec has the cache read and written under a mutual-exclusion
\* primitive, which would make this hold; without it a read that overlaps
\* the refresh loop's assignment can pair one set's array with another's
\* length.
ConsistentSnapshot ==
    readPc = "done" => gotPtr \in Versions /\ gotLen = SetLen[gotPtr]

=============================================================================
