------------------------------ MODULE PageStore ------------------------------
(***************************************************************************)
(* The public pages of a site: PageManager.savePage, deletePage and        *)
(* restoreDeletedPage (src/src/managers/PageManager.ts) over               *)
(* src/src/providers/VersioningFileProvider.ts, its history, trash and     *)
(* index, and the name lookups of src/src/providers/FileSystemProvider.ts. *)
(*                                                                         *)
(* A step is one segment of the code between two awaits.  The calls on one *)
(* page run one after the other (withPageWrite); those on different pages  *)
(* share the lookups, the index and the queue of its writes.  Every save   *)
(* brings a text of its own, so the call names the text.  The site has     *)
(* other pages: its index is never empty.                                  *)
(***************************************************************************)
EXTENDS Naturals, Sequences, SequencesExt

CONSTANTS
  Call,      \* the requests that are made
  Page,      \* the uuids
  Title,     \* the titles
  Main, Home,   \* the page that is there at first, and its title
  First,     \* the text it has
  NoPage, NoTitle,
  MaxFaults  \* bound: how often the process is killed, or a page's history or a write of
             \* the index fails

ASSUME NamesAssumption == /\ Main \in Page /\ Home \in Title
                          /\ NoPage \notin Page /\ NoTitle \notin Title /\ First \notin Call
ASSUME FaultsAssumption == MaxFaults \in Nat

VARIABLES
  mode,      \* down, up
  file,      \* file[p]: the page file
  trash,     \* trash[p]: the file in the trash
  manifest,  \* manifest[p]: the versions its history lists, by text
  snapshot,  \* snapshot[p]: the version files, each a text and what it is a diff from
  stored,    \* page-index.json
  index,     \* pageIndex: the titles of the live pages and of the deleted ones
  byTitle,   \* titleIndex and pageCache
  byUuid,    \* uuidIndex
  writes,    \* pageIndexWriteQueue
  serial,    \* serial[p]: pageWriteSerial, the calls on p, the running one first
  call,      \* call[c]: what c asks and how far it is
  faults,    \* what the bound counts
  spoilt,    \* history variable: pages whose history was begun anew or purged, that
             \* were written in another page's turn, or that got one title with another
  gone,      \* history variable: the deletes whose page was left alone since
  ousted     \* history variable: pages whose title a call that had looked it up before
             \* took from them, or that came back from the trash, since they were saved

disk == <<file, trash, manifest, snapshot>>
names == <<byTitle, byUuid>>
history == <<spoilt, gone, ousted>>
vars == <<mode, disk, stored, index, names, writes, serial, call, faults, history>>

NoFile == [title |-> NoTitle, text |-> First]

Asks == [kind : {"save", "delete", "restore", "purge"}, name : Title, title : Title]

NewCall == [kind |-> "none", name |-> Home, title |-> Home, page |-> NoPage, target |-> NoPage,
            old |-> NoPage, known |-> FALSE, list |-> <<>>, pc |-> "new", answer |-> "none"]

Init == /\ mode = "down"
        /\ file = [p \in Page |-> IF p = Main THEN [title |-> Home, text |-> First] ELSE NoFile]
        /\ trash = [p \in Page |-> NoFile]
        /\ manifest = [p \in Page |-> IF p = Main THEN <<First>> ELSE <<>>]
        /\ snapshot = [p \in Page |-> IF p = Main THEN <<[base |-> First, text |-> First]>> ELSE <<>>]
        /\ stored = [live    |-> [p \in Page |-> IF p = Main THEN Home ELSE NoTitle],
                     deleted |-> [p \in Page |-> NoTitle]]
        /\ index = [live |-> [p \in Page |-> NoTitle], deleted |-> [p \in Page |-> NoTitle]]
        /\ byTitle = [t \in Title |-> NoPage]
        /\ byUuid = [p \in Page |-> NoTitle]
        /\ writes = <<>>
        /\ serial = [p \in Page |-> <<>>]
        /\ call = [c \in Call |-> NewCall]
        /\ faults = 0
        /\ spoilt = {}
        /\ gone = {}
        /\ ousted = {}

-----------------------------------------------------------------------------
(* getPage by its title: the page, when its file can be read. *)
Read(t) == IF byTitle[t] # NoPage /\ file[byTitle[t]] # NoFile THEN byTitle[t] ELSE NoPage

(* A uuid nobody used yet, for a new page. *)
Fresh(p) == /\ file[p] = NoFile /\ trash[p] = NoFile /\ manifest[p] = <<>>
            /\ \A c \in Call : call[c].page # p /\ call[c].target # p

Runs(c, pc) == mode = "up" /\ call[c].pc = pc

Goes(c, pc) == call' = [call EXCEPT ![c].pc = pc]

(* The page is there again, or its trash is purged: what took it away is past. *)
Back(p) == {c \in gone : call[c].target # p}

(* The call waits its turn on its page (KeyedSerial.run). *)
Queues(c, p) == serial' = [serial EXCEPT ![p] = Append(@, c)]

(* Mutant of Turn: the call does not wait for those before it. *)
TurnAtOnce(c) == Runs(c, "queued")

Turn(c) == Runs(c, "queued") /\ Head(serial[call[c].page]) = c

(* The task is settled: its caller goes on, and the next task of the page. *)
Ends(c, answer) == /\ call' = [call EXCEPT ![c].pc = "done", ![c].answer = answer]
                   /\ serial' = [serial EXCEPT ![call[c].page] = Tail(@)]

(* savePageIndex: the index as it is now joins the queue. *)
Queued(c, ix) == /\ index' = ix
                 /\ writes' = Append(writes, [by |-> c, ix |-> ix])

Indexes(c, ix) == Queued(c, ix) /\ Goes(c, "flush")

-----------------------------------------------------------------------------
(* savePage: c saves the page titled name under title, which is another    *)
(* when it is renamed.                                                     *)
SaveAsks(c, name, title) ==
  /\ Runs(c, "new")
  /\ \E p \in Page :
       /\ IF Read(name) # NoPage THEN p = Read(name) ELSE Fresh(p) /\ title = name
       /\ call' = [call EXCEPT ![c] = [NewCall EXCEPT !.kind = "save", !.name = name, !.title = title,
                                                      !.page = p, !.target = p, !.pc = "check"]]
  /\ UNCHANGED <<mode, disk, stored, index, names, writes, serial, faults, history>>

(* The provider looks the page up again, by its name. *)
Finds(c) == LET found == Read(call[c].name)
            IN  call' = [call EXCEPT ![c].known = found # NoPage, ![c].pc = "write",
                                     ![c].target = IF found # NoPage THEN found ELSE call[c].page]

(* checkConflicts: the name must not be another page's.  A call that finds *)
(* no other on its page goes on at once.                                   *)
SaveChecks(c) ==
  /\ Runs(c, "check")
  /\ \/ /\ byTitle[call[c].name] \in {NoPage, call[c].page}
        /\ Queues(c, call[c].page)
        /\ IF serial[call[c].page] = <<>> THEN Finds(c) ELSE Goes(c, "queued")
     \/ /\ byTitle[call[c].name] \notin {NoPage, call[c].page}
        /\ call' = [call EXCEPT ![c].pc = "done", ![c].answer = "refused"]
        /\ UNCHANGED serial
  /\ UNCHANGED <<mode, disk, stored, index, names, writes, faults, history>>

SaveFinds(c) ==
  /\ Turn(c) /\ call[c].kind = "save"
  /\ Finds(c)
  /\ UNCHANGED <<mode, disk, stored, index, names, writes, serial, faults, history>>

(* The title is another page's, or the uuid is known under another title. *)
Taken(c) == \/ byTitle[call[c].title] \notin {NoPage, call[c].target}
            \/ byUuid[call[c].target] \notin
                 {NoTitle, IF byTitle[call[c].name] # NoPage THEN call[c].name ELSE call[c].title}

SaveWrites(c) ==
  /\ Runs(c, "write")
  /\ \/ /\ Taken(c)
        /\ Ends(c, "refused")
     \/ /\ ~Taken(c)
        /\ call' = [call EXCEPT ![c].old = byTitle[call[c].name], ![c].pc = "landing"]
        /\ UNCHANGED serial
  /\ UNCHANGED <<mode, disk, stored, index, names, writes, faults, history>>

(* Other pages that have the title c saves or restores its page under. *)
Twins(c) == {p \in Page \ {call[c].target} : file[p].title = call[c].title}

Twinned(c) == IF Twins(c) = {} THEN spoilt ELSE spoilt \cup Twins(c) \cup {call[c].target}

(* The page that goes by the name c was asked for, when it is not c's. *)
Ousted(c) == {byTitle[call[c].name]} \ {NoPage, call[c].target}

(* The file is in place, the one it was saved over is removed when it is   *)
(* another, and the lookups follow.                                        *)
SaveLands(c) ==
  /\ Runs(c, "landing")
  /\ LET k == call[c]
     IN  /\ file' = [p \in Page |-> IF p = k.target THEN [title |-> k.title, text |-> c]
                                    ELSE IF p = k.old THEN NoFile ELSE file[p]]
         /\ byTitle' = [t \in Title |-> IF t = k.title THEN k.target
                                        ELSE IF t = k.name /\ k.old # NoPage THEN NoPage ELSE byTitle[t]]
         /\ byUuid' = [byUuid EXCEPT ![k.target] = k.title]
         /\ gone' = Back(k.target)
         /\ spoilt' = Twinned(c) \cup (IF k.target # k.page THEN {k.target} ELSE {})
         /\ ousted' = (ousted \ {k.target}) \cup (IF k.old # NoPage THEN Ousted(c) ELSE {})
  /\ Goes(c, "version")
  /\ UNCHANGED <<mode, trash, manifest, snapshot, stored, index, writes, serial, faults>>

(* Mutant of NextVersion: the number of the current version is taken again. *)
NextVersionAgain(list) == IF list = <<>> THEN 1 ELSE Len(list)

NextVersion(list) == Len(list) + 1

(* createNewVersion writes the version's file, a diff from the text it     *)
(* read of the version before; createInitialVersion begins at 1.           *)
Versions(c, list, base) ==
  LET p == call[c].target
      n == NextVersion(list)
      version == [base |-> base, text |-> c]
  IN  /\ snapshot' = [snapshot EXCEPT ![p] = IF n > Len(@) THEN Append(@, version) ELSE [@ EXCEPT ![n] = version]]
      /\ call' = [call EXCEPT ![c].list = Append(list, c), ![c].pc = "manifest"]
      /\ spoilt' = IF list = <<>> /\ manifest[p] # <<>> THEN spoilt \cup {p} ELSE spoilt

(* The history of a page that was not found is begun, whatever there is. *)
HistoryOf(c) == IF call[c].known THEN manifest[call[c].target] ELSE <<>>

VersionStarts(c) ==
  /\ Runs(c, "version")
  /\ Versions(c, HistoryOf(c), IF HistoryOf(c) = <<>> THEN c ELSE Last(HistoryOf(c)))
  /\ UNCHANGED <<mode, file, trash, manifest, stored, index, names, writes, serial, faults, gone, ousted>>

(* A manifest that cannot be read is taken for no history, and a version   *)
(* that cannot be read for an empty text, which the next is a diff from.   *)
VersionMisreads(c) ==
  /\ Runs(c, "version") /\ HistoryOf(c) # <<>>
  /\ faults < MaxFaults
  /\ faults' = faults + 1
  /\ \E list \in {<<>>, HistoryOf(c)} : Versions(c, list, c)
  /\ UNCHANGED <<mode, file, trash, manifest, stored, index, names, writes, serial, gone, ousted>>

(* Mutant of Retitled: the entry a page has keeps its title. *)
RetitledOnce(p, title) == IF index.live[p] # NoTitle THEN index ELSE [index EXCEPT !.live[p] = title]

(* updatePageInIndex: whoever else has the title leaves the index. *)
Retitled(p, title) == [index EXCEPT !.live = [q \in Page |-> IF q = p THEN title
                                                             ELSE IF index.live[q] = title THEN NoTitle
                                                             ELSE index.live[q]]]

Supplanted(c) == {q \in Twins(c) : index.live[q] = call[c].title}

(* The manifest is written, and the index follows. *)
VersionEnds(c) ==
  /\ Runs(c, "manifest")
  /\ manifest' = [manifest EXCEPT ![call[c].target] = call[c].list]
  /\ Indexes(c, Retitled(call[c].target, call[c].title))
  /\ ousted' = ousted \cup Supplanted(c)
  /\ UNCHANGED <<mode, file, trash, snapshot, stored, names, serial, faults, spoilt, gone>>

(* "A versioning failure is non-fatal": the version or the manifest cannot *)
(* be written, and the save goes on without.                               *)
VersionFails(c) ==
  /\ Runs(c, "version") \/ Runs(c, "manifest")
  /\ faults < MaxFaults
  /\ faults' = faults + 1
  /\ Queued(c, Retitled(call[c].target, call[c].title))
  /\ call' = [call EXCEPT ![c].pc = "flush", ![c].list = <<>>]
  /\ ousted' = ousted \cup Supplanted(c)
  /\ UNCHANGED <<mode, disk, stored, names, serial, spoilt, gone>>

-----------------------------------------------------------------------------
(* deletePage: the delete is decided and recorded, then waits its turn.    *)
DeleteAsks(c, name) ==
  /\ Runs(c, "new")
  /\ Read(name) # NoPage
  /\ call' = [call EXCEPT ![c] = [NewCall EXCEPT !.kind = "delete", !.name = name, !.page = Read(name),
                                                 !.target = Read(name), !.pc = "record"]]
  /\ UNCHANGED <<mode, disk, stored, index, names, writes, serial, faults, history>>

DeleteQueues(c) == /\ Runs(c, "record")
                   /\ Queues(c, call[c].page)
                   /\ Goes(c, "queued")
                   /\ UNCHANGED <<mode, disk, stored, index, names, writes, faults, history>>

DeleteFinds(c) ==
  /\ Turn(c) /\ call[c].kind = "delete"
  /\ \/ /\ Read(call[c].name) = NoPage
        /\ Ends(c, "refused")
     \/ /\ Read(call[c].name) # NoPage
        /\ call' = [call EXCEPT ![c].target = Read(call[c].name), ![c].pc = "moving"]
        /\ UNCHANGED serial
  /\ UNCHANGED <<mode, disk, stored, index, names, writes, faults, history>>

(* What is left in the index of a page that was deleted: its tombstone. *)
Buried(p) == [live |-> [index.live EXCEPT ![p] = NoTitle], deleted |-> [index.deleted EXCEPT ![p] = index.live[p]]]

(* The file is in the trash; the lookups forget the page, and the index    *)
(* its entry, when it has one.                                             *)
DeleteMoves(c) ==
  /\ Runs(c, "moving") /\ call[c].kind = "delete"
  /\ LET p == call[c].target
     IN  /\ file[p] # NoFile
         /\ trash' = [trash EXCEPT ![p] = file[p]]
         /\ file' = [file EXCEPT ![p] = NoFile]
         /\ byTitle' = [byTitle EXCEPT ![call[c].name] = NoPage]
         /\ byUuid' = [byUuid EXCEPT ![p] = NoTitle]
         /\ ousted' = ousted \cup Ousted(c)
         /\ \/ /\ index.live[p] # NoTitle
               /\ Indexes(c, Buried(p))
               /\ gone' = IF p = call[c].page THEN gone \cup {c} ELSE gone
               /\ UNCHANGED serial
            \/ /\ index.live[p] = NoTitle
               /\ Ends(c, "ok")
               /\ UNCHANGED <<index, writes, gone>>
  /\ UNCHANGED <<mode, manifest, snapshot, stored, faults, spoilt>>

MoveFails(c) ==
  /\ Runs(c, "moving")
  /\ \/ call[c].kind = "delete" /\ file[call[c].target] = NoFile
     \/ call[c].kind = "restore" /\ (trash[call[c].target] = NoFile \/ file[call[c].target] # NoFile)
  /\ Ends(c, "failed")
  /\ UNCHANGED <<mode, disk, stored, index, names, writes, faults, history>>

-----------------------------------------------------------------------------
(* restoreDeletedPage and purgeDeletedPage, of a tombstone *)
TrashAsks(c, kind, p) ==
  /\ Runs(c, "new")
  /\ index.deleted[p] # NoTitle
  /\ call' = [call EXCEPT ![c] = [NewCall EXCEPT !.kind = kind, !.page = p, !.target = p, !.pc = "queued"]]
  /\ Queues(c, p)
  /\ UNCHANGED <<mode, disk, stored, index, names, writes, faults, history>>

RestoreFinds(c) ==
  /\ Turn(c) /\ call[c].kind = "restore"
  /\ LET p == call[c].page
         title == index.deleted[p]
         can   == trash[p] # NoFile /\ title \in {t \in Title : byTitle[t] = NoPage}
     IN  \/ /\ ~can
            /\ Ends(c, "refused")
         \/ /\ can
            /\ call' = [call EXCEPT ![c].title = title, ![c].pc = "moving"]
            /\ UNCHANGED serial
  /\ UNCHANGED <<mode, disk, stored, index, names, writes, faults, history>>

(* The file is back, and the entry the tombstone was made of. *)
Raised(p, title) == [live |-> [index.live EXCEPT ![p] = title], deleted |-> [index.deleted EXCEPT ![p] = NoTitle]]

RestoreMoves(c) ==
  /\ Runs(c, "moving") /\ call[c].kind = "restore"
  /\ LET p == call[c].page
     IN  /\ trash[p] # NoFile /\ file[p] = NoFile
         /\ file' = [file EXCEPT ![p] = trash[p]]
         /\ trash' = [trash EXCEPT ![p] = NoFile]
         /\ byTitle' = [byTitle EXCEPT ![call[c].title] = p]
         /\ byUuid' = [byUuid EXCEPT ![p] = call[c].title]
         /\ gone' = Back(p)
         /\ spoilt' = Twinned(c)
         /\ ousted' = ousted \cup {p}
         /\ Indexes(c, Raised(p, call[c].title))
  /\ UNCHANGED <<mode, manifest, snapshot, stored, serial, faults>>

(* The trash file first ... *)
PurgeFinds(c) ==
  /\ Turn(c) /\ call[c].kind = "purge"
  /\ \/ /\ index.deleted[call[c].page] = NoTitle
        /\ Ends(c, "refused")
        /\ UNCHANGED <<trash, gone>>
     \/ /\ index.deleted[call[c].page] # NoTitle
        /\ trash' = [trash EXCEPT ![call[c].page] = NoFile]
        /\ gone' = Back(call[c].page)
        /\ Goes(c, "purging")
        /\ UNCHANGED serial
  /\ UNCHANGED <<mode, file, manifest, snapshot, stored, index, names, writes, faults, spoilt, ousted>>

(* ... then the history, unless it is a live page's, and the tombstone. *)
PurgeEnds(c) ==
  /\ Runs(c, "purging")
  /\ LET p    == call[c].page
         live == index.live[p] # NoTitle
     IN  /\ manifest' = IF live THEN manifest ELSE [manifest EXCEPT ![p] = <<>>]
         /\ snapshot' = IF live THEN snapshot ELSE [snapshot EXCEPT ![p] = <<>>]
         /\ spoilt' = IF live THEN spoilt ELSE spoilt \cup {p}
         /\ Indexes(c, [index EXCEPT !.deleted[p] = NoTitle])
  /\ UNCHANGED <<mode, file, trash, stored, names, serial, faults, gone, ousted>>

-----------------------------------------------------------------------------
(* savePageIndex: the writes of the index, one after the other.            *)

(* Mutant of NextWrite: the writes overtake one another. *)
AnyWrite == 1 .. Len(writes)

NextWrite == {1} \cap DOMAIN writes

IndexLands(i) ==
  LET by == writes[i].by
  IN  /\ stored' = writes[i].ix
      /\ writes' = RemoveAt(writes, i)
      /\ Ends(by, "ok")
      /\ UNCHANGED <<mode, disk, index, names, faults, history>>

(* Only the call whose write it was fails. *)
IndexFails == /\ writes # <<>>
              /\ faults < MaxFaults
              /\ faults' = faults + 1
              /\ writes' = Tail(writes)
              /\ Ends(Head(writes).by, "failed")
              /\ UNCHANGED <<mode, disk, stored, index, names, history>>

-----------------------------------------------------------------------------
(* initializeFromIndex: of two entries with one title one is retired, and  *)
(* the files the index does not list are found, those with a free title.   *)

OnePerTitle(ps, title(_)) == \A p, q \in ps : title(p) = title(q) => p = q

Found(kept) ==
  LET title(p) == file[p].title
      missing  == {p \in Page \ kept : file[p] # NoFile /\ \A q \in kept : stored.live[q] # file[p].title}
  IN  {ps \in SUBSET missing : OnePerTitle(ps, title) /\ \A p \in missing : \E q \in ps : title(q) = title(p)}

Kept == LET title(p) == stored.live[p]
            listed   == {p \in Page : title(p) # NoTitle}
        IN  {ps \in SUBSET listed : OnePerTitle(ps, title) /\ \A p \in listed : \E q \in ps : title(q) = title(p)}

StartsUp ==
  /\ mode = "down"
  /\ mode' = "up"
  /\ \E kept \in Kept : \E found \in Found(kept) :
       LET title(p) == IF p \in kept THEN stored.live[p] ELSE file[p].title
           served   == kept \cup found
           ix       == [stored EXCEPT !.live = [p \in Page |-> IF p \in kept THEN @[p] ELSE NoTitle]]
       IN  /\ byUuid' = [p \in Page |-> IF p \in served THEN title(p) ELSE NoTitle]
           /\ byTitle' = [t \in Title |-> IF \E p \in served : title(p) = t
                                          THEN CHOOSE p \in served : title(p) = t ELSE NoPage]
           /\ index' = ix
           /\ stored' = ix
  /\ UNCHANGED <<disk, writes, serial, call, faults, history>>

Killed == /\ mode = "up"
          /\ faults < MaxFaults
          /\ faults' = faults + 1
          /\ mode' = "down"
          /\ index' = [live |-> [p \in Page |-> NoTitle], deleted |-> [p \in Page |-> NoTitle]]
          /\ byTitle' = [t \in Title |-> NoPage]
          /\ byUuid' = [p \in Page |-> NoTitle]
          /\ writes' = <<>>
          /\ serial' = [p \in Page |-> <<>>]
          /\ call' = [c \in Call |-> IF call[c].pc \in {"new", "done"} THEN call[c]
                                     ELSE [call[c] EXCEPT !.pc = "done", !.answer = "cut"]]
          /\ UNCHANGED <<disk, stored, history>>

Next == \/ \E c \in Call :
             \/ \E name, title \in Title : SaveAsks(c, name, title)
             \/ SaveChecks(c) \/ SaveFinds(c) \/ SaveWrites(c) \/ SaveLands(c)
             \/ VersionStarts(c) \/ VersionMisreads(c) \/ VersionEnds(c) \/ VersionFails(c)
             \/ \E name \in Title : DeleteAsks(c, name)
             \/ DeleteQueues(c) \/ DeleteFinds(c) \/ DeleteMoves(c) \/ MoveFails(c)
             \/ \E kind \in {"restore", "purge"}, p \in Page : TrashAsks(c, kind, p)
             \/ RestoreFinds(c) \/ RestoreMoves(c) \/ PurgeFinds(c) \/ PurgeEnds(c)
        \/ \E i \in NextWrite : IndexLands(i)
        \/ IndexFails
        \/ StartsUp \/ Killed

Spec == Init /\ [][Next]_vars

-----------------------------------------------------------------------------
Text == Call \cup {First}
Doc  == [title : Title \cup {NoTitle}, text : Text]
Index == [live : [Page -> Title \cup {NoTitle}], deleted : [Page -> Title \cup {NoTitle}]]

CallRecord == [kind : {"none", "save", "delete", "restore", "purge"}, name : Title, title : Title,
               page : Page \cup {NoPage}, target : Page \cup {NoPage}, old : Page \cup {NoPage}, known : BOOLEAN,
               list : Seq(Text), answer : {"none", "ok", "refused", "failed", "cut"},
               pc : {"new", "check", "record", "queued", "write", "landing", "version", "manifest",
                     "moving", "purging", "flush", "done"}]

(* The calls that are at work on a page: each is the first of its queue. *)
AtWork == {c \in Call : call[c].pc \in {"write", "landing", "version", "manifest", "moving", "purging", "flush"}}

PagesTypeOK ==
  /\ mode \in {"down", "up"}
  /\ file \in [Page -> Doc] /\ trash \in [Page -> Doc]
  /\ manifest \in [Page -> Seq(Text)]
  /\ snapshot \in [Page -> Seq([base : Text, text : Text])]
  /\ stored \in Index /\ index \in Index
  /\ byTitle \in [Title -> Page \cup {NoPage}] /\ byUuid \in [Page -> Title \cup {NoTitle}]
  /\ writes \in Seq([by : Call, ix : Index])
  /\ serial \in [Page -> Seq(Call)]
  /\ call \in [Call -> CallRecord]
  /\ \A c \in AtWork : serial[call[c].page] # <<>> /\ Head(serial[call[c].page]) = c
  /\ faults \in Nat
  /\ spoilt \subseteq Page /\ gone \subseteq Call /\ ousted \subseteq Page

(* reconstructVersion of the newest version its manifest lists, and so of  *)
(* all of them: each file is there, and a diff from the text before it.    *)
Reads(p) == /\ Len(manifest[p]) <= Len(snapshot[p])
            /\ \A v \in DOMAIN manifest[p] :
                 /\ snapshot[p][v].text = manifest[p][v]
                 /\ v > 1 => snapshot[p][v].base = snapshot[p][v - 1].text

(* One of them was made from a text that could not be read. *)
Misread(p) == \E v \in DOMAIN manifest[p] \cap DOMAIN snapshot[p] :
  v > 1 /\ snapshot[p][v].base = snapshot[p][v].text

(* A save that was answered and whose version did not fail is in the       *)
(* history of its page, whatever else was saved, deleted, restored, cut    *)
(* off or failed since, and every version can be read back unless one was  *)
(* made from a text that could not be read; unless the history was purged  *)
(* or begun anew, or the page was written by a call that had waited for    *)
(* another page.                                                           *)
SavedIsInHistory == \A c \in Call :
  call[c].kind = "save" /\ call[c].answer = "ok" /\ call[c].list # <<>> /\ call[c].target \notin spoilt =>
    /\ \E v \in DOMAIN manifest[call[c].target] : manifest[call[c].target][v] = c
    /\ Reads(call[c].target) \/ Misread(call[c].target)

(* A page whose delete was answered, and that was left alone since, can be *)
(* restored: its file is in the trash and the stored index has its         *)
(* tombstone, unless the page was served without an entry in the index, or *)
(* was deleted by a call that had waited for another page.                 *)
DeletedIsRestorable == \A c \in gone :
  call[c].answer = "ok" => trash[call[c].target] # NoFile /\ stored.deleted[call[c].target] # NoTitle

(* One write at a time per page: what FileSystemProvider says of its       *)
(* pageWriteSerial, and what a save that waited on the page its name stood *)
(* for, and found another page by that name, breaks.                       *)
OneWriteAtATime == \A c, d \in AtWork : call[c].target = call[d].target => c = d

(* A save that was answered is what its title serves, in this run of the   *)
(* server and in the next ones, as long as its text is the page's: neither *)
(* the lookups nor any index that may still be read give the title to      *)
(* another page, unless a call that had looked the title up before took it *)
(* from the page, or the page came back from the trash.                    *)
SavedIsServed == mode = "up" => \A c \in Call :
  /\ call[c].kind = "save" /\ call[c].answer = "ok" /\ call[c].target \notin spoilt \cup ousted
  /\ file[call[c].target] = [title |-> call[c].title, text |-> c]
  => byTitle[call[c].title] = call[c].target
=============================================================================
