------------------------------- MODULE Lists --------------------------------
(***************************************************************************)
(* The block lists of an edge (internal/blocklist) and the admin requests  *)
(* that change them.  Each kind of list is read from an overlay file that  *)
(* the panel writes and from source files that belong to the operator.     *)
(* Nothing is locked: a request, another request and the reload timer read *)
(* and write the same files, and store what they read into the same        *)
(* pointers.                                                               *)
(*                                                                         *)
(* A line of a file is a model value; the form in which it is held and     *)
(* listed may be another one (1.2.3.4 is listed as 1.2.3.4/32, the user    *)
(* agent "curl #1" as "curl").                                             *)
(***************************************************************************)
EXTENDS Naturals, Sequences, FiniteSets

CONSTANTS
    Kind,       \* the lists, in the order in which Load reads them
    Line,       \* lines of a file
    Comment,    \* lines that begin with #
    Bad,        \* for each list, what does not parse, as a line and as a value
    First,      \* a source file's lines at the start
    Listed,     \* for each list, the form in which a line is held and listed
    Entry,      \* for each list, the line that is made of a value
    NFiles,     \* the number of source files of a list
    Worker,     \* admin requests in flight
    Ticker,     \* the goroutine of StartReload
    MaxOps,     \* bound on the admin requests
    MaxEdits,   \* bound on the operator's changes of the source files
    MaxFaults,  \* bound on files that cannot be opened for writing
    NoActor     \* no admin request and not the timer

Kinds == {Kind[i] : i \in DOMAIN Kind}
File == 1..NFiles

(* What is read is listed in a form that is read as itself; what is not read
   stays as it is, or becomes empty.  Only an address is written as it was
   typed.  What is refused would not be read; a value that is not refused may
   be one that is not read either.                                          *)
Skipped(k) == Comment \cup Bad[k]

ASSUME ListsAssumption ==
    /\ Kind \in Seq({"ip", "dns", "ua"}) /\ NFiles \in Nat
    /\ Comment \subseteq Line /\ First \subseteq Line /\ Bad \in [Kinds -> SUBSET Line]
    /\ Listed \in [Kinds -> [Line -> Line]] /\ Entry \in [Kinds -> [Line -> Line]]
    /\ \A k \in Kinds :
         /\ \A l \in Line \ Skipped(k) : Listed[k][l] \notin Skipped(k) /\ Listed[k][Listed[k][l]] = Listed[k][l]
         /\ \A l \in Skipped(k) : Listed[k][l] \in Skipped(k)
         /\ \A v \in Bad[k] : Entry[k][v] \in Skipped(k)
         /\ k = "ip" => \A v \in Line : Entry[k][v] = v
    /\ Ticker \notin Worker /\ NoActor \notin Worker \cup {Ticker}

VARIABLES
    overlay,    \* the overlay files
    source,     \* the source files
    gone,       \* the source files of a list that cannot be read
    lists,      \* Sets.ips, dns, uas
    acts,       \* the admin requests and the reload timer
    ops, edits, faults

listVars == <<overlay, source, gone, lists, acts, ops, edits, faults>>
files == <<overlay, source, gone>>
bounds == <<ops, edits, faults>>

Actor == Worker \cup {Ticker}

(* todo: the entry operations left; got: what Load has read so far; kept: the
   lines RemoveEntry writes back; at: the source file it is at, or 0 for the
   overlay; changed: whether it has rewritten a source file.  The rest is
   history: the request and the lists at its start, and whether it found them
   up to date and nothing else has run since.                               *)
Idle == [pc |-> "idle", todo |-> <<>>, got |-> <<>>, kept |-> {}, at |-> 0, changed |-> FALSE,
         req |-> <<>>, before |-> <<>>, alone |-> FALSE]

(* Without the others' steps nothing is told of a request that was not alone. *)
Watched(r) == IF r.alone THEN [r EXCEPT !.alone = FALSE, !.req = <<>>, !.before = <<>>] ELSE r

-----------------------------------------------------------------------------
Norm(k, l) == Listed[k][l]

Lines(k) == overlay[k] \cup UNION {source[k][j] : j \in File}

(* A comment and a line that does not parse are skipped.                    *)
loadFiles(k) == {Norm(k, l) : l \in Lines(k) \ Skipped(k)}

Content == [k \in Kinds |-> loadFiles(k)]

ListsInit ==
    /\ overlay = [k \in Kinds |-> {}]
    /\ source \in [Kinds -> [File -> {{}, First}]]
    /\ gone = [k \in Kinds |-> {}]
    /\ lists = Content
    /\ acts = [a \in Actor |-> Idle]
    /\ ops = 0 /\ edits = 0 /\ faults = 0

(* The others are no longer alone once a takes a step.                      *)
Set(a, r) == acts' = [b \in Actor |-> IF b = a THEN r ELSE Watched(acts[b])]

At(a, pc) == acts[a].pc = pc

Fault == faults < MaxFaults /\ faults' = faults + 1

-----------------------------------------------------------------------------
(* Load: every file of every list, then the pointers                        *)
Loading(r) == [r EXCEPT !.pc = "read", !.got = <<>>, !.kept = {}, !.at = 0, !.changed = FALSE]

(* The request is over.                                                     *)
Done(a) == Set(a, Idle)

(* The next operation of the request, if there is one.                      *)
Continue(a) == Set(a, [Loading(acts[a]) EXCEPT !.pc = "op", !.todo = Tail(@)])

Left(a, op) == Len(acts[a].todo) > 1 /\ acts[a].todo[1].op = op

(* An AddEntry that fails is followed by the one that puts the old line back,
   a RemoveEntry that succeeds by the AddEntry of the edit.                 *)
Failed(a) == IF Left(a, "add") THEN Continue(a) ELSE Done(a)
Succeeded(a) == IF Left(a, "remove") THEN Continue(a) ELSE Done(a)

LoadRead(a) ==
    LET i == Len(acts[a].got) + 1 IN
    /\ At(a, "read") /\ i <= Len(Kind)
    /\ IF gone[Kind[i]] # {} THEN Failed(a) ELSE Set(a, [acts[a] EXCEPT !.got = Append(@, loadFiles(Kind[i]))])
    /\ UNCHANGED <<files, lists, bounds>>

(* What Load has read of list k.                                            *)
Got(a, k) == acts[a].got[CHOOSE i \in DOMAIN Kind : Kind[i] = k]

\* Fault: the timer reads the files into lists of its own.
LoadStore_TimerDrops(a) ==
    /\ At(a, "read") /\ Len(acts[a].got) = Len(Kind)
    /\ lists' = IF a = Ticker THEN lists ELSE [k \in Kinds |-> Got(a, k)]
    /\ Succeeded(a)
    /\ UNCHANGED <<files, bounds>>

LoadStore(a) ==
    /\ At(a, "read") /\ Len(acts[a].got) = Len(Kind)
    /\ lists' = [k \in Kinds |-> Got(a, k)]
    /\ Succeeded(a)
    /\ UNCHANGED <<files, bounds>>

StartReload ==
    /\ At(Ticker, "idle")
    /\ Set(Ticker, Loading(Idle))
    /\ UNCHANGED <<files, lists, bounds>>

-----------------------------------------------------------------------------
(* The admin requests                                                       *)
Readable == \A k \in Kinds : gone[k] = {}

Begin(a, pc, todo) ==
    /\ At(a, "idle") /\ ops < MaxOps
    /\ ops' = ops + 1
    /\ Set(a, IF lists = Content /\ Readable /\ \A b \in Actor : At(b, "idle")
              THEN [Idle EXCEPT !.pc = pc, !.todo = todo, !.req = todo, !.before = Content, !.alone = TRUE]
              ELSE [Idle EXCEPT !.pc = pc, !.todo = todo])
    /\ UNCHANGED <<files, lists, edits, faults>>

Op(op, k, v) == [op |-> op, k |-> k, v |-> v]

handleBlocklistReload(a) == Begin(a, "read", <<>>)

handleEntriesPost(a, k, v) == Begin(a, "op", <<Op("add", k, v)>>)
handleEntriesDelete(a, k, v) == Begin(a, "op", <<Op("remove", k, v)>>)

\* Fault: the old line is not put back.
handleEntriesPut_NoUndo(a, k, v, w) == Begin(a, "op", <<Op("remove", k, v), Op("add", k, w)>>)

(* PUT: remove, add, and add the old line again should that fail.           *)
handleEntriesPut(a, k, v, w) == Begin(a, "op", <<Op("remove", k, v), Op("add", k, w), Op("add", k, v)>>)

Current(a) == acts[a].todo[1]

(* The line made of a value: an address as it was typed, a host or a user
   agent in its normal form, which may still begin with # or hold one.      *)
Typed(k, v) == Entry[k][v]

ListEntries(k) == lists[k]

(* The value is refused, is listed already, is appended, or the file cannot be
   opened.                                                                  *)
AddEntry(a) ==
    LET k == Current(a).k  v == Current(a).v IN
    /\ At(a, "op") /\ Current(a).op = "add"
    /\ \/ v \in Bad[k] /\ Failed(a) /\ UNCHANGED <<overlay, faults>>
       \/ v \notin Bad[k] /\ Typed(k, v) \in ListEntries(k) /\ Succeeded(a) /\ UNCHANGED <<overlay, faults>>
       \/ /\ v \notin Bad[k] /\ Typed(k, v) \notin ListEntries(k)
          /\ \/ /\ overlay' = [overlay EXCEPT ![k] = @ \cup {Typed(k, v)}]
                /\ Set(a, Loading(acts[a])) /\ UNCHANGED faults
             \/ Fault /\ Failed(a) /\ UNCHANGED overlay
    /\ UNCHANGED <<source, gone, lists, ops, edits>>

(* A line of the overlay is compared as it is written if it is an address;
   every other one in its listed form.                                      *)
InOverlay(k, v) == {l \in overlay[k] \ Comment : (IF k = "ip" THEN l ELSE Norm(k, l)) = Typed(k, v)}
InSource(k, j, v) == {l \in source[k][j] \ Comment : Norm(k, l) = Typed(k, v)}

(* The file has been read and opened for writing, which empties it.  Comments
   are not written back.                                                    *)
Rewrite(a, lines, j) == Set(a, [acts[a] EXCEPT !.pc = "write", !.kept = lines \ Comment, !.at = j])

RemoveEntry(a) ==
    LET k == Current(a).k  v == Current(a).v IN
    /\ At(a, "op") /\ Current(a).op = "remove"
    /\ \/ /\ InOverlay(k, v) # {}
          /\ \/ /\ overlay' = [overlay EXCEPT ![k] = {}]
                /\ Rewrite(a, overlay[k] \ InOverlay(k, v), 0)
                /\ UNCHANGED faults
             \/ Fault /\ Failed(a) /\ UNCHANGED overlay
       \/ /\ InOverlay(k, v) = {}
          /\ Set(a, [acts[a] EXCEPT !.pc = "source", !.at = 1])
          /\ UNCHANGED <<overlay, faults>>
    /\ UNCHANGED <<source, gone, lists, ops, edits>>

(* The next source file, if it can be read and has the line; one that cannot
   be written ends the request, whatever it has rewritten before.           *)
removeFromSources(a) ==
    LET k == Current(a).k  v == Current(a).v  j == acts[a].at IN
    /\ At(a, "source")
    /\ \/ /\ j \in File /\ (j \in gone[k] \/ InSource(k, j, v) = {})
          /\ Set(a, [acts[a] EXCEPT !.at = @ + 1]) /\ UNCHANGED <<source, faults>>
       \/ /\ j \in File /\ j \notin gone[k] /\ InSource(k, j, v) # {}
          /\ \/ /\ source' = [source EXCEPT ![k][j] = {}]
                /\ Rewrite(a, source[k][j] \ InSource(k, j, v), j)
                /\ UNCHANGED faults
             \/ Fault /\ Failed(a) /\ UNCHANGED source
       \/ /\ j \notin File
          /\ IF acts[a].changed THEN Set(a, Loading(acts[a])) ELSE Failed(a)
          /\ UNCHANGED <<source, faults>>
    /\ UNCHANGED <<overlay, gone, lists, ops, edits>>

(* What another request appended in the meantime may be overwritten or not. *)
WriteFile(a) ==
    LET k == Current(a).k  j == acts[a].at  kept == acts[a].kept IN
    /\ At(a, "write")
    /\ \/ /\ j = 0
          /\ \E more \in SUBSET overlay[k] : overlay' = [overlay EXCEPT ![k] = kept \cup more]
          /\ Set(a, Loading(acts[a])) /\ UNCHANGED source
       \/ /\ j # 0
          /\ source' = [source EXCEPT ![k][j] = kept]
          /\ Set(a, [acts[a] EXCEPT !.pc = "source", !.kept = {}, !.at = j + 1, !.changed = TRUE])
          /\ UNCHANGED overlay
    /\ UNCHANGED <<gone, lists, bounds>>

(* The operator writes a source file, or moves one away or back.            *)
EditSource ==
    /\ edits < MaxEdits
    /\ edits' = edits + 1
    /\ \E k \in Kinds, j \in File :
         \/ \E s \in {{}, First} : source' = [source EXCEPT ![k][j] = s] /\ UNCHANGED gone
         \/ /\ gone' = [gone EXCEPT ![k] = IF j \in @ THEN @ \ {j} ELSE @ \cup {j}]
            /\ UNCHANGED source
    /\ Set(NoActor, Idle)
    /\ UNCHANGED <<overlay, lists, ops, faults>>

-----------------------------------------------------------------------------
Step(a) ==
    LoadRead(a) \/ LoadStore(a) \/ AddEntry(a) \/ RemoveEntry(a) \/ removeFromSources(a) \/ WriteFile(a)

ListsNext ==
    \/ StartReload \/ EditSource
    \/ \E a \in Actor : Step(a)
    \/ \E a \in Worker : handleBlocklistReload(a)
    \/ \E a \in Worker, k \in Kinds, v \in Line :
         \/ handleEntriesPost(a, k, v) \/ handleEntriesDelete(a, k, v)
         \/ \E w \in Line : handleEntriesPut(a, k, v, w)

(* Requests run to their end and the reload timer ticks.                    *)
ListsSpec ==
    /\ ListsInit /\ [][ListsNext]_listVars
    /\ \A a \in Actor : WF_listVars(Step(a))
    /\ WF_listVars(StartReload)

-----------------------------------------------------------------------------
(* Once the operator and the panel are done and the files can be read, the
   lists are those of the files, whatever stale contents an overlapping load,
   or a load that met an emptied file, has stored.                          *)
Heals == <>[](Readable => lists = Content)

(* A request that finds the lists up to date and runs alone loses no line it
   does not take out, and an edit keeps the old line or the new one, also when
   the new one is refused or cannot be written, or a source file cannot be
   rewritten after others have been; unless putting the old line back fails as
   well, or the new value is accepted although it is a comment to Load
   (AddEntry refuses no host or user agent that begins with #).             *)
Form(k, v) == Norm(k, Typed(k, v))

Names(a, k) == {Form(k, o.v) : o \in {acts[a].req[i] : i \in {j \in DOMAIN acts[a].req :
                                      acts[a].req[j].op = "remove" /\ acts[a].req[j].k = k}}}

UndoFails(a) == Len(acts[a].req) = 3 /\ Len(acts[a].todo) = 1 /\ faults' > faults

Unread(a, k) == acts[a].req[2].v \notin Bad[k] /\ Typed(k, acts[a].req[2].v) \in Skipped(k)

RequestKeeps ==
    [][\A a \in Worker : acts[a].alone /\ acts'[a] = Idle /\ ~UndoFails(a) =>
         \A k \in Kinds :
           /\ acts[a].before[k] \ Names(a, k) \subseteq Content'[k]
           /\ Len(acts[a].req) > 1 /\ acts[a].req[1].k = k /\ Names(a, k) \subseteq acts[a].before[k]
                /\ ~Unread(a, k) =>
                {Form(k, acts[a].req[i].v) : i \in DOMAIN acts[a].req} \cap Content'[k] # {}]_listVars
=============================================================================
