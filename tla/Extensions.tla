------------------------------ MODULE Extensions ------------------------------
(***************************************************************************)
(* The extensions of the downloader (pkg/download/extension.go): the list, *)
(* which no lock protects, the record of each in the storage, its          *)
(* directory and its own key-value store; the calls that install, upgrade, *)
(* configure, switch and delete them; and the triggers, run by goroutines  *)
(* of tasks, that walk over the list and run the scripts.  Scripts and     *)
(* manifests are data: a manifest gives settings their types, a script     *)
(* registers a handler or does not, a handler fails or stores a key.       *)
(***************************************************************************)
EXTENDS Integers, Sequences, FiniteSets

CONSTANTS
  Exts, Names, Values,   \* extensions; names of settings; values users give them
  Manifests,             \* the settings of each version: name to type
  Registers,             \* extensions whose script registers a handler for the event
  Triggers, Keys,        \* goroutines that trigger; keys scripts store
  Callers,               \* goroutines that call the API
  Alone,                 \* calls that are made while no other is
  MaxExtCalls, MaxTriggers, MaxReboots \* bounds

NoExt == [version |-> 0, disabled |-> FALSE, settings |-> <<>>]
rest == [op |-> "rest"]

VARIABLES
  array, size,           \* d.extensions: its backing array and its length
  ext, record,           \* each *Extension; bucketExtension
  folder,                \* ExtensionPath is there
  store,                 \* bucketExtensionStorage
  ecall,                 \* the calls of the API
  trigger,               \* the triggers under way
  meant,                 \* history: what the user set, where it should still hold
  message,               \* history: triggers in which a script raised a MessageError
  extCalls, triggered, reboots

memory == <<array, size, ext>>
saved  == <<record, folder, store>>
history == <<meant, message>>
extBounds == <<extCalls, triggered, reboots>>
extVars == <<memory, saved, ecall, trigger, history, extBounds>>

listed == {array[i] : i \in 1..size}
getExtension(x) == x \in listed

----------------------------------------------------------------------------
(* Install, upgrade, configure, switch, delete.  Each call changes what is  *)
(* in memory, then stores it.                                               *)

Call(c, op, x, at) ==
  /\ ecall[c] = rest /\ extCalls < MaxExtCalls
  /\ op \in Alone => \A d \in Callers : ecall[d] = rest
  /\ \A d \in Callers : ecall[d] # rest => ecall[d].op \notin Alone
  /\ extCalls' = extCalls + 1
  /\ ecall' = [ecall EXCEPT ![c] = [op |-> op, x |-> x, at |-> at]]

\* Extension.update: a setting keeps its value unless its type changes.
merged(old, new) ==
  [n \in DOMAIN new |-> IF n \in DOMAIN old /\ old[n].type = new[n].type THEN old[n] ELSE new[n]]

\* Mutant of newSettings: an upgrade brings the defaults of the new version.
freshSettings(old, new) == new

newSettings(old, new) == merged(old, new)

defaults(m) == [n \in DOMAIN m |-> [type |-> m[n], value |-> "default"]]

\* InstallExtensionByFolder copies the files and adds or updates the extension;
\* append writes in place where there is room.
Install(c, x, v) ==
  /\ Call(c, IF getExtension(x) THEN "upgrade" ELSE "install", x, "put")
  /\ folder' = folder \union {x}
  /\ IF getExtension(x)
     THEN /\ ext' = [ext EXCEPT ![x].version = v,
                                ![x].settings = newSettings(@, defaults(Manifests[v]))]
          /\ UNCHANGED <<array, size>>
     ELSE /\ ext' = [ext EXCEPT ![x] =
               [version |-> v, disabled |-> FALSE, settings |-> defaults(Manifests[v])]]
          /\ array' = IF size < Len(array) THEN [array EXCEPT ![size + 1] = x] ELSE Append(array, x)
          /\ size' = size + 1
  /\ meant' = [meant EXCEPT ![x] = [n \in Names |->
       IF n \in DOMAIN ext'[x].settings /\ n \in DOMAIN ext[x].settings
            /\ ext'[x].settings[n].type = ext[x].settings[n].type
       THEN meant[x][n] ELSE "none"]]
  /\ UNCHANGED <<record, store, trigger, message, triggered, reboots>>

UpdateExtensionSettings(c, x, n, v) ==
  /\ Call(c, "settings", x, "put") /\ getExtension(x)
  /\ n \in DOMAIN ext[x].settings
  /\ ext' = [ext EXCEPT ![x].settings[n].value = v]
  /\ meant' = [meant EXCEPT ![x][n] = "none"]
  /\ UNCHANGED <<array, size, saved, trigger, message, triggered, reboots>>

SwitchExtension(c, x) ==
  /\ Call(c, "switch", x, "put") /\ getExtension(x)
  /\ ext' = [ext EXCEPT ![x].disabled = ~@]
  /\ UNCHANGED <<array, size, saved, trigger, history, triggered, reboots>>

\* Mutant of stored: what is stored is what the call was made for.
storedOld(x) == [ext[x] EXCEPT !.settings = record[x].settings]

\* storage.Put takes the extension as it is by then.
stored(x) == ext[x]

Puts(c) ==
  /\ ecall[c] # rest /\ ecall[c].at = "put"
  /\ LET x == ecall[c].x IN
       /\ record' = [record EXCEPT ![x] = stored(x)]
       /\ meant' = IF ecall[c].op # "settings" THEN meant
                   ELSE [meant EXCEPT ![x] = [n \in Names |->
                           IF n \in DOMAIN ext[x].settings
                           THEN ext[x].settings[n].value ELSE "none"]]
  /\ ecall' = [ecall EXCEPT ![c] = rest]
  /\ UNCHANGED <<memory, folder, store, trigger, message, extBounds>>

\* DeleteExtension: the files, the list, the two records.
DeleteExtension(c, x) ==
  /\ Call(c, "delete", x, "list") /\ getExtension(x)
  /\ folder' = folder \ {x}
  /\ UNCHANGED <<memory, record, store, trigger, history, triggered, reboots>>

\* append(s[:i], s[i+1:]...) moves what follows to the left, in place.
DeleteLists(c) ==
  /\ ecall[c] # rest /\ ecall[c].at = "list"
  /\ LET x == ecall[c].x
         at == {i \in 1..size : array[i] = x}
         first == CHOOSE i \in at : \A j \in at : i <= j IN
       IF at = {} THEN UNCHANGED <<array, size>>
       ELSE /\ array' = [i \in DOMAIN array |->
                 IF i >= first /\ i < size THEN array[i + 1] ELSE array[i]]
            /\ size' = size - 1
  /\ ecall' = [ecall EXCEPT ![c].at = "record"]
  /\ UNCHANGED <<ext, saved, trigger, history, extBounds>>

DeleteRecords(c) ==
  /\ ecall[c] # rest /\ ecall[c].at = "record"
  /\ LET x == ecall[c].x IN
       /\ record' = [record EXCEPT ![x] = NoExt]
       /\ store' = [store EXCEPT ![x] = {}]
       /\ meant' = [meant EXCEPT ![x] = [n \in Names |-> "none"]]
  /\ ecall' = [ecall EXCEPT ![c] = rest]
  /\ UNCHANGED <<memory, folder, trigger, message, extBounds>>

\* Setup loads the extensions from the storage.
Reboot ==
  /\ reboots < MaxReboots /\ reboots' = reboots + 1
  /\ \E order \in [1..Cardinality({x \in Exts : record[x] # NoExt})
                    -> {x \in Exts : record[x] # NoExt}] :
       /\ \A i, j \in DOMAIN order : i # j => order[i] # order[j]
       /\ array' = order /\ size' = Len(order)
  /\ ext' = record
  /\ ecall' = [c \in Callers |-> rest] /\ trigger' = [g \in Triggers |-> rest]
  /\ UNCHANGED <<saved, history, extCalls, triggered>>

----------------------------------------------------------------------------
(* doTrigger: one Instance for all the extensions of the event *)

TriggerBegins(g) ==
  /\ trigger[g] = rest /\ triggered < MaxTriggers /\ triggered' = triggered + 1
  /\ trigger' = [trigger EXCEPT ![g] =
       [op |-> "next", i |-> 1, n |-> size, handler |-> "none", err |-> "none",
        raw |-> {}, ran |-> {}]]
  /\ message' = message \ {g}
  /\ UNCHANGED <<memory, saved, ecall, meant, extCalls, reboots>>

At(g, op) == trigger[g] # rest /\ trigger[g].op = op
Current(g) == array[trigger[g].i]
Moves(g, fields) == trigger' = [trigger EXCEPT ![g] = fields]
Skipped(g) == [trigger[g] EXCEPT !.op = "next", !.i = @ + 1]

\* The list is read as it is now, up to the length it had.
TriggerSkips(g) ==
  /\ At(g, "next") /\ trigger[g].i <= trigger[g].n /\ trigger[g].i \in DOMAIN array
  /\ \/ ext[Current(g)].disabled /\ Moves(g, Skipped(g))
     \/ ~ext[Current(g)].disabled /\ Current(g) \notin folder
          /\ Moves(g, [Skipped(g) EXCEPT !.err = "other"])
  /\ UNCHANGED <<memory, saved, ecall, history, extBounds>>

\* The script registers its handler, or leaves the one that is there.
TriggerRuns(g) ==
  /\ At(g, "next") /\ trigger[g].i <= trigger[g].n /\ trigger[g].i \in DOMAIN array
  /\ LET x == Current(g)
         h == IF x \in Registers THEN x ELSE trigger[g].handler IN
       /\ ~ext[x].disabled /\ x \in folder
       /\ Moves(g, IF h = "none" THEN [Skipped(g) EXCEPT !.err = "none"]
                   ELSE [trigger[g] EXCEPT !.op = "call", !.handler = h, !.err = "none",
                                           !.ran = @ \union {<<h, x>>}])
  /\ UNCHANGED <<memory, saved, ecall, history, extBounds>>

\* The handler fails, succeeds, or stores a key: ContextStorage.Set reads all
\* that is stored and writes it back.
HandlerEnds(g) ==
  /\ At(g, "call")
  /\ \E e \in {"none", "other", "message"} :
       /\ Moves(g, [Skipped(g) EXCEPT !.err = e])
       /\ message' = IF e = "message" THEN message \union {g} ELSE message
  /\ UNCHANGED <<memory, saved, ecall, meant, extBounds>>

HandlerReads(g) ==
  /\ At(g, "call")
  /\ Moves(g, [trigger[g] EXCEPT !.op = "set", !.raw = store[Current(g)]])
  /\ UNCHANGED <<memory, saved, ecall, history, extBounds>>

HandlerWrites(g) ==
  /\ At(g, "set")
  /\ \E k \in Keys, put \in BOOLEAN : store' = [store EXCEPT ![Current(g)] =
       IF put THEN trigger[g].raw \union {k} ELSE trigger[g].raw \ {k}]
  /\ Moves(g, [Skipped(g) EXCEPT !.err = "none"])
  /\ UNCHANGED <<memory, record, folder, ecall, history, extBounds>>

\* Only a MessageError is returned.
TriggerEnds(g) ==
  /\ At(g, "next") /\ trigger[g].i > trigger[g].n
  /\ Moves(g, [trigger[g] EXCEPT !.op = "ended"])
  /\ UNCHANGED <<memory, saved, ecall, history, extBounds>>

TriggerReturns(g) ==
  /\ At(g, "ended")
  /\ Moves(g, rest)
  /\ message' = message \ {g}
  /\ UNCHANGED <<memory, saved, ecall, meant, extBounds>>

----------------------------------------------------------------------------
Init ==
  /\ array = <<>> /\ size = 0
  /\ ext = [x \in Exts |-> NoExt] /\ record = [x \in Exts |-> NoExt]
  /\ folder = {} /\ store = [x \in Exts |-> {}]
  /\ ecall = [c \in Callers |-> rest] /\ trigger = [g \in Triggers |-> rest]
  /\ meant = [x \in Exts |-> [n \in Names |-> "none"]] /\ message = {}
  /\ extCalls = 0 /\ triggered = 0 /\ reboots = 0

CallStep(c) ==
  \/ Puts(c) \/ DeleteLists(c) \/ DeleteRecords(c)
  \/ \E x \in Exts :
       \/ SwitchExtension(c, x) \/ DeleteExtension(c, x)
       \/ \E v \in DOMAIN Manifests : Install(c, x, v)
       \/ \E n \in Names, v \in Values : UpdateExtensionSettings(c, x, n, v)
TriggerStep(g) ==
  \/ TriggerBegins(g) \/ TriggerSkips(g) \/ TriggerRuns(g) \/ HandlerEnds(g)
  \/ HandlerReads(g) \/ HandlerWrites(g) \/ TriggerEnds(g) \/ TriggerReturns(g)

Next == (\E c \in Callers : CallStep(c)) \/ (\E g \in Triggers : TriggerStep(g)) \/ Reboot

Spec == Init /\ [][Next]_extVars

----------------------------------------------------------------------------
(* Properties *)

\* Every variable has its type.
TypeOK ==
  /\ \A i \in DOMAIN array : array[i] \in Exts
  /\ size \in 0..Len(array)
  /\ \A x \in Exts : \A e \in {ext[x], record[x]} :
       /\ e.version \in 0..Len(Manifests) /\ e.disabled \in BOOLEAN
       /\ DOMAIN e.settings \subseteq Names
  /\ folder \subseteq Exts /\ store \in [Exts -> SUBSET Keys]
  /\ message \subseteq Triggers

\* A setting keeps the value the user gave it, through upgrades, restarts and
\* whatever else is called meanwhile, until an upgrade drops it or changes its
\* type, the user changes it, or the extension is deleted.
UserValueKept == \A x \in listed, n \in Names :
  meant[x][n] # "none" =>
    n \in DOMAIN ext[x].settings /\ ext[x].settings[n].value = meant[x][n]

\* While nobody is in a call, the storage has each extension as it is shown: a
\* restart changes neither the list nor its settings.
SavedAsShown == (\A c \in Callers : ecall[c] = rest) =>
  \A x \in Exts : record[x] = IF x \in listed THEN ext[x] ELSE NoExt

\* A MessageError raised by any of the extensions is returned.
MessageReturned == \A g \in Triggers :
  (At(g, "ended") /\ g \in message) => trigger[g].err = "message"

\* An extension's handler runs as that extension, with its settings and its store.
OwnHandler == \A g \in Triggers : trigger[g] # rest => \A p \in trigger[g].ran : p[1] = p[2]

\* What a script writes back is what is stored, but for its own key: scripts
\* that run at the same time do not undo each other.
KeysKept == [][\A g \in Triggers :
  (At(g, "set") /\ store' # store) => trigger[g].raw = store[Current(g)]]_extVars

----------------------------------------------------------------------------
(* The inductive invariant behind UserValueKept and SavedAsShown            *)

\* Install and delete are called while no other call is made.
ExtConstants ==
  /\ IsFiniteSet(Exts) /\ "none" \notin Exts /\ {"install", "delete"} \subseteq Alone
  /\ Len(Manifests) \in Nat /\ DOMAIN Manifests = 1..Len(Manifests)
  /\ \A v \in DOMAIN Manifests : DOMAIN Manifests[v] \subseteq Names

Types == UNION {{Manifests[v][n] : n \in DOMAIN Manifests[v]} : v \in DOMAIN Manifests}
Settings == UNION {[D -> [type : Types, value : Values \union {"default"}]] : D \in SUBSET Names}
Records == [version : 0..Len(Manifests), disabled : BOOLEAN, settings : Settings]

\* The list has each extension once.
ListFormed ==
  /\ array \in Seq(Exts) /\ size \in 0..Len(array)
  /\ \A i, j \in 1..size : array[i] = array[j] => i = j

Recorded ==
  /\ ext \in [Exts -> Records] /\ record \in [Exts -> Records]
  /\ folder \subseteq Exts /\ store \in [Exts -> SUBSET Keys] /\ message \subseteq Triggers
  /\ meant \in [Exts -> [Names -> Values \union {"default", "none"}]]

Pending(c, x) == ecall[c] # rest /\ ecall[c].x = x

CallRecords ==
  [op : {"install", "upgrade", "settings", "switch", "delete"}, x : Exts,
   at : {"put", "list", "record"}]
TriggerRecords ==
  [op : {"next", "call", "set", "ended"}, i : Nat \ {0}, n : Nat,
   handler : Exts \union {"none"}, err : {"none", "other", "message"},
   raw : SUBSET Keys, ran : SUBSET (Exts \X Exts)]

\* A call is about an extension that is listed, or just taken from the list, and
\* nothing else is called while one of Alone is.
CallsFormed ==
  /\ ecall \in [Callers -> CallRecords \union {rest}]
  /\ \A c \in Callers : ecall[c] # rest =>
       /\ ecall[c].at = "put" <=> ecall[c].op # "delete"
       /\ ecall[c].x \in listed <=> ecall[c].at # "record"
       /\ ecall[c].op \in Alone => \A d \in Callers \ {c} : ecall[d] = rest

\* A trigger that runs a script has its place in the list.
TriggersFormed ==
  /\ trigger \in [Triggers -> TriggerRecords \union {rest}]
  /\ \A g \in Triggers : At(g, "call") \/ At(g, "set") => trigger[g].i \in DOMAIN array

\* What nobody is changing is stored as it is shown; what the user set is in
\* memory and stored.
StoredAsMeant ==
  /\ \A x \in Exts : (\A c \in Callers : ~Pending(c, x)) =>
       record[x] = IF x \in listed THEN ext[x] ELSE NoExt
  /\ \A x \in Exts, n \in Names : meant[x][n] # "none" => \A e \in {ext[x], record[x]} :
       n \in DOMAIN e.settings /\ e.settings[n].value = meant[x][n]

ExtInv == ListFormed /\ Recorded /\ CallsFormed /\ TriggersFormed /\ StoredAsMeant

==============================================================================
