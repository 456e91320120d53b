------------------------------- MODULE MCParts -------------------------------
(***************************************************************************)
(* Five components that share no state, checked side by side: a behaviour  *)
(* is one of HttpSingle, MultiPart, BtFetcher, Extensions or TaskFiles;    *)
(* the others stay in an initial state.  NamedApart is the property of     *)
(* TaskFiles itself, whose variables and actions are here under their own  *)
(* names.                                                                  *)
(***************************************************************************)
EXTENDS TaskFiles

\* HttpSingle
CONSTANTS Total, Retries, Faults, RetryWaits, SpareDrains, MaxFaults, MaxStarts, MaxPauses
VARIABLES range, sized, restored, known, body, pendingStart, redir, sstate, exists, cst, cfailed,
  cerr, cretry, got, cpc, mode, spos, counted, right, over, sfile, sdone, loop, exp, cancelled,
  loopDone, spare, sop, panic, broken, requests, faults, sstarts, spauses

\* MultiPart
CONSTANTS Parts, Deletable, MaxDeletes, MaxStops
VARIABLES queuedTasks, dl, disk, xstat, mbase, wpc, claims, jobs, job, delAfter, fresh, tried,
  deletes, stops

\* BtFetcher
CONSTANTS Fetchers, Files, Selections, EarlyPatch, MaxBtCalls
VARIABLES client, live, built, torrent, info, ready, starter, asUpload, allow, have, sel, seeder,
  dropped, udone, waiter, upWaiter, closing, patching, finished, onHold, deleted, short, dead,
  btCalls

\* Extensions
CONSTANTS Exts, Names, Values, Registers, Triggers, Keys, Callers, Alone, MaxExtCalls, MaxTriggers,
  MaxReboots
VARIABLES array, size, ext, record, folder, store, ecall, trigger, meant, message, extCalls,
  triggered, reboots

CONSTANT Components  \* the components looked at
VARIABLE part        \* the component of this behaviour

\* An old style RAR in parts, and the first part of a 7z of that name elsewhere.
Archive == [t \in Parts |-> IF t = "p1" THEN "other/old" ELSE "dir/old"]
Title == [a \in {"dir/old", "other/old"} |-> "old"]
Lead == [a \in {"dir/old", "other/old"} |-> IF a = "dir/old" THEN "rar" ELSE "p1"]
Second == [a \in {"dir/old", "other/old"} |-> IF a = "dir/old" THEN "r00" ELSE ""]

\* Three versions: one with another setting, one that changes a type.
Manifests == << [s |-> "string"], [s |-> "string", b |-> "string"],
                [s |-> "number", b |-> "string"] >>

HS == INSTANCE HttpSingle
MP == INSTANCE MultiPart
BT == INSTANCE BtFetcher
EX == INSTANCE Extensions

singleVars == <<range, sized, restored, known, body, pendingStart, redir, sstate, exists, cst,
  cfailed, cerr, cretry, got, cpc, mode, spos, counted, right, over, sfile, sdone, loop, exp,
  cancelled, loopDone, spare, sop, panic, broken, requests, faults, sstarts, spauses>>
multiVars == <<queuedTasks, dl, disk, xstat, mbase, wpc, claims, jobs, job, delAfter, fresh,
  tried, deletes, stops>>
btVars == <<client, live, built, torrent, info, ready, starter, asUpload, allow, have, sel,
  seeder, dropped, udone, waiter, upWaiter, closing, patching, finished, onHold, deleted,
  short, dead, btCalls>>
extVars == <<array, size, ext, record, folder, store, ecall, trigger, meant, message, extCalls,
  triggered, reboots>>
partsVars == <<part, singleVars, multiVars, btVars, extVars, fileVars>>

PartsInit ==
  /\ part \in Components
  /\ HS!Init /\ MP!Init /\ BT!Init /\ EX!Init /\ Init
  /\ part # "single" => ~range /\ sized /\ ~restored
  /\ part # "multi" => ~delAfter
  /\ part # "bt" => \A f \in Fetchers : ~finished[f] /\ ~built[f]
  /\ part # "files" => writers[0] = {}

SingleNext ==
  part = "single" /\ HS!Next /\ UNCHANGED <<part, multiVars, btVars, extVars, fileVars>>
MultiNext ==
  part = "multi" /\ MP!Next /\ UNCHANGED <<part, singleVars, btVars, extVars, fileVars>>
BtNext ==
  part = "bt" /\ BT!Next /\ UNCHANGED <<part, singleVars, multiVars, extVars, fileVars>>
ExtNext ==
  part = "ext" /\ EX!Next /\ UNCHANGED <<part, singleVars, multiVars, btVars, fileVars>>
FilesNext ==
  part = "files" /\ Next /\ UNCHANGED <<part, singleVars, multiVars, btVars, extVars>>

PartsNext == SingleNext \/ MultiNext \/ BtNext \/ ExtNext \/ FilesNext

PartsSpec == PartsInit /\ [][PartsNext]_partsVars

\* With the fairness each component states.
PartsFairSpec == PartsSpec /\ HS!Fairness /\ MP!Fairness /\ BT!Fairness

----------------------------------------------------------------------------
(* The properties of the components; each is stated where it is defined. *)

\* Every variable of every component has its type.
TypesOK == HS!TypeOK /\ MP!TypeOK /\ BT!TypeOK /\ EX!TypeOK /\ TypeOK

\* The answer of Resolve is what is downloaded first: HttpSingle.
OneRequest == HS!OneRequest

\* Done means that the file is whole, with the exceptions it names: HttpSingle.
WholeUnlessBroken == HS!WholeUnlessBroken

\* A started download ends, and Pause returns: HttpSingle.
RunsEnd == HS!RunsEnd

\* A whole archive is in the queue at most once: MultiPart.
OneAtATime == MP!OneAtATime

\* The last part gets the archive extracted: MultiPart.
WholeExtracted == MP!WholeExtracted

\* Wait returns for what is complete, or deleted: BtFetcher.
WaitMeansComplete == BT!WaitMeansComplete

\* Delete and all that waits for it end: BtFetcher.
DeleteEnds == BT!DeleteEnds

\* Settings outlive upgrades and restarts: Extensions.
UserValueKept == EX!UserValueKept

\* The storage has what is shown: Extensions.
SavedAsShown == EX!SavedAsShown

----------------------------------------------------------------------------
(* Stated where they are defined, and not true: the README has the runs that *)
(* reproduce the counterexamples.                                            *)

\* MultiPart: a whole or a broken archive is in the queue once.
ClaimedOnce == MP!ClaimedOnce

\* MultiPart: what is shown of the parts of an archive that was extracted.
NoneWaitsForDone == MP!NoneWaitsForDone

\* MultiPart: Done is shown for a part's own archive.
DoneIsOwn == MP!DoneIsOwn

\* Extensions: a MessageError is returned to the user.
MessageReturned == EX!MessageReturned

\* Extensions: a handler runs as its own extension.
OwnHandler == EX!OwnHandler

\* Extensions: scripts do not undo each other's Set.
KeysKept == EX!KeysKept

==============================================================================
