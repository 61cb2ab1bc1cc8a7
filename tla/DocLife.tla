------------------------------ MODULE DocLife ------------------------------
(***************************************************************************)
(* The documents a host owns and the files they stand for: opening,        *)
(* sharing, editing, saving, moving, closing and deleting them, and the    *)
(* file watcher that reports what other programs do to the files.          *)
(*                                                                         *)
(* A file is an inode under a path; a document holds a handle on an inode. *)
(* A text is a number; which ops lead from one text to the next is the     *)
(* matter of the modules OtDoc and InternalDoc, who is subscribed that of  *)
(* DocSync.  A request of a remote host has the effect of one of the       *)
(* editor, if the host has the permission (write_allowed, create_allowed,  *)
(* delete_allowed).                                                        *)
(*                                                                         *)
(* For 100 ms after a save the host takes a change for an echo of the save; *)
(* the notification of the save may reach the watcher before they are over *)
(* or after.  To open a file for reading and writing may fail.             *)
(***************************************************************************)
EXTENDS Naturals, FiniteSets, Sequences, Functions

CONSTANTS
    Dirs, Names,  \* a path is a directory and a name
    Buffer,       \* the name of a buffer that has no file
    NoName,       \* the name of a document that is not open
    InitFiles,    \* the paths that exist at the start
    Wide,         \* the texts with characters of more than one byte
    MaxInodes,    \* bound: files ever created
    MaxTexts,     \* bound: texts, but the empty one
    MaxDocs,      \* bound: documents ever opened
    MaxSteps,     \* bound: edits, moves and changes by other programs, together
    MaxNotices    \* bound: notifications under way

Paths == Dirs \X Names
Inodes == 1 .. MaxInodes
Texts == 0 .. MaxTexts
Docs == 1 .. MaxDocs
NoFile == 0
Empty == 0
NoEcho == 0

ASSUME NamesAssumption ==
    {Buffer, NoName} \cap Paths = {} /\ Buffer # NoName /\ InitFiles \subseteq Paths
ASSUME BoundsAssumption ==
    /\ MaxInodes \in Nat /\ MaxTexts \in Nat /\ MaxDocs \in Nat /\ MaxSteps \in Nat
    /\ IsFiniteSet(InitFiles)
    /\ Cardinality(InitFiles) <= MaxInodes /\ Cardinality(InitFiles) <= MaxTexts
    /\ Wide \subseteq 1 .. MaxTexts

VARIABLES
    disk,     \* disk[p]: the inode under a path
    content,  \* content[i]: the text in an inode
    doc,      \* doc[d]: self.docs
    watched,  \* watched_files of the watcher
    towatch,  \* a WatchFiles message under way to the watcher (the last one)
    raw,      \* notifications of the file system under way to the watcher: a
              \* path, the document whose save they are the echo of, if it is
              \* open and the 100 ms are not over, and whether their kind is
              \* Modify(Data)
    events,   \* FileChanged messages, each with the documents of its path
              \* whose last_saved_at is not before its timestamp (old)
    window,   \* documents saved in the last 100 ms
    missed,   \* documents that a change from outside was not reported to
    moved,    \* documents whose file a MoveFile has moved
    torn,     \* documents that it parted from the name of the file it moved
    opened,   \* next_doc_id
    steps     \* edits, moves and changes by other programs so far

files == <<disk, content>>
watcher == <<watched, towatch, raw, events>>
vars == <<disk, content, doc, watched, towatch, raw, events, window, missed, moved, torn,
          opened, steps>>

NoDoc == [name |-> NoName, canon |-> NoName, file |-> NoFile, text |-> Empty, base |-> Empty,
          fits |-> TRUE]

Open == {d \in Docs : doc[d].name # NoName}
OnDisk(p) == disk[p] # NoFile
TextAt(p) == content[disk[p]]
Under(i) == {p \in Paths : i # NoFile /\ disk[p] = i}
Named(p) == {d \in Open : doc[d].name = p}
Canon(p) == {d \in Open : doc[d].canon = p}
FreeInode == {i \in Inodes : i \notin Range(disk) /\ i \notin {doc[d].file : d \in Open}}
NewInode == CHOOSE i \in FreeInode : TRUE
AnotherStep == steps < MaxSteps /\ steps' = steps + 1
Edited(old, text) == IF text = old THEN UNCHANGED steps ELSE AnotherStep

\* What is under the path is not what d last read from it or wrote to it.
OutOfSync(d, p) == OnDisk(p) /\ (disk[p] # doc[d].file \/ TextAt(p) # doc[d].base)

\* The notifications of a change to a path by another program, and of a
\* save of a document.
Notice(p, data) == [path |-> p, by |-> NoEcho, data |-> data]
Echoes(d) == [path : Under(doc[d].file), by : {d}, data : {TRUE}]

Notify(ns) == raw' = raw \cup ns /\ Cardinality(raw') + Cardinality(events) <= MaxNotices

\* Notifications or messages that are no longer the echo of a document in ds.
NoEchoOf(ds, ns) == {[n EXCEPT !.by = IF @ \in ds THEN NoEcho ELSE @] : n \in ns}

\* last_saved_at of d, a document with path p, is not before any message's
\* timestamp.
SavedSince(d, p) == {[e EXCEPT !.old = IF e.path = p THEN @ \cup {d} ELSE @] : e \in events}

\* resend_watch_files: the paths of all documents that have one.
Resend(docs) == towatch' = <<{p \in Paths : \E d \in Docs : docs[d].name = p}>>

Init ==
    /\ \E f \in [InitFiles -> 1 .. Cardinality(InitFiles)] :
         /\ \A p, q \in InitFiles : f[p] = f[q] => p = q
         /\ disk = [p \in Paths |-> IF p \in InitFiles THEN f[p] ELSE NoFile]
    /\ content = [i \in Inodes |-> IF i <= Cardinality(InitFiles) THEN i ELSE Empty]
    /\ doc = [d \in Docs |-> NoDoc]
    /\ watched = {} /\ towatch = <<>> /\ raw = {} /\ events = {} /\ window = {}
    /\ missed = {} /\ moved = {} /\ torn = {}
    /\ opened = 0 /\ steps = 0

(***************************************************************************)
(* Opening and sharing                                                     *)
(***************************************************************************)
\* Doc::new: the path is canonicalized once, the engine is given the length
\* in bytes (it fits the buffer, which counts characters, if the two are the
\* same), and events from before now are old.
NewDoc(p, i, text, base) ==
    LET d == opened + 1
    IN  /\ d \in Docs /\ opened' = d
        /\ doc' = [doc EXCEPT ![d] =
             [name |-> p, canon |-> p, file |-> i, text |-> text, base |-> base,
              fits |-> text \notin Wide]]
        /\ events' = SavedSince(d, p)

\* The documents after NewDoc are the ones the watcher is to watch.
Rewatch == Resend(doc')

\* Mutation: a document that is open is not looked for.
Bug_OpenFile(p) ==
    /\ OnDisk(p)
    /\ NewDoc(p, disk[p], TextAt(p), TextAt(p))
    /\ Rewatch
    /\ UNCHANGED <<files, watched, raw, window, missed, moved, torn, steps>>

\* open_file_from_editor, handle_request_file: a document that is open is
\* found by its name and shown; open_file_from_disk reads any other, and
\* creates it if asked to.
OpenFile(p) ==
    /\ Named(p) = {} /\ OnDisk(p)
    /\ NewDoc(p, disk[p], TextAt(p), TextAt(p))
    /\ Rewatch
    /\ UNCHANGED <<files, watched, raw, window, missed, moved, torn, steps>>

CreateFile(p) ==
    /\ Named(p) = {} /\ ~OnDisk(p)
    /\ FreeInode # {}
    /\ disk' = [disk EXCEPT ![p] = NewInode]
    /\ content' = [content EXCEPT ![NewInode] = Empty]
    /\ NewDoc(p, NewInode, Empty, Empty)
    /\ Rewatch
    /\ UNCHANGED <<watched, raw, window, missed, moved, torn, steps>>

\* An open document is shown; only the editor's own request tells the watcher
\* again.
ShowFile(p) ==
    /\ Named(p) # {} /\ p \in Paths
    /\ Resend(doc)
    /\ UNCHANGED <<files, doc, watched, raw, events, window, missed, moved, torn, opened, steps>>

\* handle_share_file_from_editor: what the editor shows, of a file that is
\* there or of a buffer, becomes a document; of a file that cannot be opened
\* one without a handle, which saves nothing.
ShareFile(p, text) ==
    /\ Named(p) = {} /\ OnDisk(p)
    /\ Edited(TextAt(p), text)
    /\ \E i \in {disk[p], NoFile} : NewDoc(p, i, text, TextAt(p))
    /\ Rewatch
    /\ UNCHANGED <<files, watched, raw, window, missed, moved, torn>>

ShareBuffer(text) ==
    /\ Named(Buffer) = {}
    /\ Edited(Empty, text)
    /\ NewDoc(Buffer, NoFile, text, text)
    /\ Rewatch
    /\ UNCHANGED <<files, watched, raw, window, missed, moved, torn>>

(***************************************************************************)
(* Editing and saving                                                      *)
(***************************************************************************)
\* apply_op of ops that process_ops has put into the history: where engine
\* and buffer differ in length it fails, before or after the edit, and the
\* ops are not sent.
Applied(r, text) ==
    {[r EXCEPT !.text = t] : t \in IF r.fits THEN {text} ELSE {r.text, text}}

\* handle_op_from_client
Edit(d, text) ==
    /\ d \in Open /\ text # doc[d].text
    /\ Edited(doc[d].text, text)
    /\ doc' \in {[doc EXCEPT ![d] = r] : r \in Applied(doc[d], text)}
    /\ UNCHANGED <<files, watcher, window, missed, moved, torn, opened>>

\* Mutation: last_saved_at is the time of the save, without the 100 ms.
Bug_JustSaved(d) ==
    /\ UNCHANGED window
    /\ events' = SavedSince(d, doc[d].canon)

\* last_saved_at is set to now and 100 ms.
JustSaved(d) ==
    /\ window' = window \cup {d}
    /\ events' = SavedSince(d, doc[d].canon)

\* save_to_disk writes to the inode of the handle, wherever that is.
SaveFile(d) ==
    /\ d \in Open /\ doc[d].file # NoFile
    /\ content' = [content EXCEPT ![doc[d].file] = doc[d].text]
    /\ Notify(Echoes(d))
    /\ doc' = [doc EXCEPT ![d].base = doc[d].text]
    /\ JustSaved(d)
    /\ missed' = IF doc[d].name \in Under(doc[d].file) THEN missed \ {d} ELSE missed
    /\ UNCHANGED <<disk, watched, towatch, moved, torn, opened, steps>>

\* The 100 ms are over: an echo that is still to come is taken for a change.
WindowEnds(d) ==
    /\ d \in window
    /\ window' = window \ {d}
    /\ raw' = NoEchoOf({d}, raw)
    /\ UNCHANGED <<files, doc, watched, towatch, events, missed, moved, torn, opened, steps>>

(***************************************************************************)
(* Other programs                                                          *)
(***************************************************************************)
\* The file is written in place.
ExternalWrite(p, text) ==
    /\ AnotherStep
    /\ OnDisk(p)
    /\ content' = [content EXCEPT ![disk[p]] = text]
    /\ Notify({Notice(p, TRUE)})
    /\ UNCHANGED <<disk, doc, watched, towatch, events, window, missed, moved, torn, opened>>

\* A new file is put under the path: written there, or renamed onto it.
ExternalReplace(p, text) ==
    /\ AnotherStep
    /\ FreeInode # {}
    /\ disk' = [disk EXCEPT ![p] = NewInode]
    /\ content' = [content EXCEPT ![NewInode] = text]
    /\ \E data \in BOOLEAN : Notify({Notice(p, data)})
    /\ UNCHANGED <<doc, watched, towatch, events, window, missed, moved, torn, opened>>

ExternalDelete(p) ==
    /\ AnotherStep
    /\ OnDisk(p)
    /\ disk' = [disk EXCEPT ![p] = NoFile]
    /\ UNCHANGED <<content, doc, watcher, window, missed, moved, torn, opened>>

(***************************************************************************)
(* The watcher (filewatch_receptor.rs)                                     *)
(***************************************************************************)
\* apply_watch_files: paths that do not exist are dropped.
ApplyWatchFiles ==
    /\ towatch # <<>>
    /\ watched' = {p \in Head(towatch) : OnDisk(p)}
    /\ towatch' = <<>>
    /\ UNCHANGED <<files, doc, raw, events, window, missed, moved, torn, opened, steps>>

\* handle_notify_event: FileChanged, with the time it is handled at, unless
\* the kind is another than Modify(Data) or the file is not watched.
HandleNotifyEvent(n) ==
    /\ raw' = raw \ {n}
    /\ IF n.data /\ n.path \in watched
         THEN /\ events' = events \cup {[path |-> n.path, by |-> n.by, old |-> window \cap Canon(n.path)]}
              /\ UNCHANGED missed
         ELSE /\ missed' = missed \cup {d \in Canon(n.path) : OutOfSync(d, n.path)}
              /\ UNCHANGED events
    /\ UNCHANGED <<files, doc, watched, towatch, window, moved, torn, opened, steps>>

(***************************************************************************)
(* reset_doc_from_disk                                                     *)
(***************************************************************************)
\* Mutation: the handle is not exchanged.
Bug_Swapped(r, p) == [r EXCEPT !.base = TextAt(p)]

\* The fresh handle replaces the old one.
Swapped(r, p) == [r EXCEPT !.file = disk[p], !.base = TextAt(p)]

\* A difference to the buffer is applied as ops and the handle exchanged;
\* without a difference the old handle stays.  A file that is gone cannot be
\* opened.
Reset(d, p) ==
    LET same == TextAt(p) = doc[d].text
    IN  IF ~OnDisk(p) THEN UNCHANGED <<doc, missed>>
        ELSE /\ IF same THEN doc' = [doc EXCEPT ![d].base = TextAt(p)]
                ELSE doc' \in {[doc EXCEPT ![d] = Swapped(r, p)] : r \in Applied(doc[d], TextAt(p))}
             /\ missed' = {x \in missed : x # d} \cup {x \in Canon(p) \ {d} : OutOfSync(x, p)}
                          \cup {x \in {d} : same /\ disk[p] # doc[d].file}

Ignore(p) ==
    /\ missed' = missed \cup {x \in Canon(p) : OutOfSync(x, p)}
    /\ UNCHANGED doc

\* FileChanged: the document with that canonical path, unless it was saved
\* since or the file cannot be opened.
HandleFileChanged(e) ==
    /\ e \in events
    /\ events' = events \ {e}
    /\ IF Canon(e.path) = {} THEN Ignore(e.path)
       ELSE \E d \in Canon(e.path) : Ignore(e.path) \/ (d \notin e.old /\ Reset(d, e.path))
    /\ UNCHANGED <<files, watched, towatch, raw, window, moved, torn, opened, steps>>

\* ResetFromDisk of the editor or a remote host: any document that has the
\* canonical path of d.
ResetFromDisk(d) ==
    /\ d \in Open /\ doc[d].canon # Buffer
    /\ \E e \in Canon(doc[d].canon) : Reset(e, doc[d].canon)
    /\ UNCHANGED <<files, watcher, window, moved, torn, opened, steps>>

(***************************************************************************)
(* Moving, closing and deleting                                            *)
(***************************************************************************)
FileMove(p, q) == [x \in {p} |-> q]
DirMove(a, b) == [x \in {a} \X Names |-> <<b, x[2]>>]
AllMoves ==
    {FileMove(pq[1], pq[2]) : pq \in Paths \X Paths} \cup {DirMove(ab[1], ab[2]) : ab \in Dirs \X Dirs}

\* Mutation: the part of the path below the moved directory is lost.
Bug_RenamedToDir(r, m) == [r EXCEPT !.name = m[@][1]]

\* Mutation: only the file on disk is moved.
Bug_Renamed(r, m) == r

\* The new name of a document; its canonical path stays what it was.
Renamed(r, m) == [r EXCEPT !.name = m[@]]

\* The documents that write to a file of the move by another name than theirs:
\* their former path.
Stray(m) == {d \in Open : (Under(doc[d].file) \cap DOMAIN m) \ {doc[d].name} # {}}

\* move_file_on_disk: nothing may be under the target.  The file or directory
\* is moved, then the documents are given their new names, one by one, up to
\* the first that is a buffer: there the request fails.
MoveFile(m) ==
    /\ AnotherStep
    /\ \E p \in DOMAIN m : OnDisk(p)
    /\ \A q \in Range(m) : ~OnDisk(q)
    /\ disk' = [x \in Paths |-> IF x \in Range(m) THEN disk[CHOOSE p \in DOMAIN m : m[p] = x]
                                ELSE IF x \in DOMAIN m THEN NoFile ELSE disk[x]]
    /\ LET affected == {d \in Open : doc[d].name \in DOMAIN m}
       IN  \E renamed \in IF Named(Buffer) = {} THEN {affected} ELSE SUBSET affected :
             /\ doc' = [d \in Docs |-> IF d \in renamed THEN Renamed(doc[d], m) ELSE doc[d]]
             /\ moved' = moved \cup affected
             /\ torn' = torn \cup (affected \ renamed) \cup Stray(m)
    /\ missed' = missed \cup {d \in Open : doc[d].name \in Range(m)}
    /\ UNCHANGED <<content, watcher, window, opened>>

\* handle_close_file_locally: save and drop the documents under the path (a
\* file, a directory or a buffer), in any order, then delete what is under
\* it, if asked.  saves are the last saves to each file.  To delete a path
\* with no document under it is an ExternalDelete.
CloseFiles(names, delete) ==
    LET closed == {d \in Open : doc[d].name \in names}
        SavesTo(i, saves) == {d \in saves : doc[d].file = i}
    IN  /\ closed # {}
        /\ \E saves \in SUBSET closed :
             /\ \A d \in closed : Cardinality(SavesTo(doc[d].file, saves)) = 1
             /\ content' = [i \in Inodes |->
                  IF SavesTo(i, saves) = {} THEN content[i]
                  ELSE doc[CHOOSE d \in SavesTo(i, saves) : TRUE].text]
        /\ raw' = NoEchoOf(closed, raw \cup UNION {Echoes(d) : d \in closed})
        /\ Cardinality(raw') + Cardinality(events) <= MaxNotices
        /\ doc' = [d \in Docs |-> IF d \in closed THEN NoDoc ELSE doc[d]]
        /\ disk' = [p \in Paths |-> IF delete /\ p \in names THEN NoFile ELSE disk[p]]
        /\ events' = {[e EXCEPT !.old = @ \ closed] : e \in NoEchoOf(closed, events)}
        /\ window' = window \ closed
        /\ missed' = missed \ closed
        /\ moved' = moved \ closed
        /\ torn' = torn \ closed
        /\ Rewatch
        /\ UNCHANGED <<watched, opened, steps>>

Closable == {{p} : p \in Paths \cup {Buffer}} \cup {{a} \X Names : a \in Dirs}

-----------------------------------------------------------------------------
Next ==
    \/ \E p \in Paths :
         \/ OpenFile(p) \/ CreateFile(p) \/ ShowFile(p) \/ ExternalDelete(p)
         \/ \E t \in Texts : ShareFile(p, t) \/ ExternalWrite(p, t) \/ ExternalReplace(p, t)
    \/ \E t \in Texts : ShareBuffer(t) \/ (\E d \in Docs : Edit(d, t))
    \/ \E d \in Docs : SaveFile(d) \/ WindowEnds(d) \/ ResetFromDisk(d)
    \/ ApplyWatchFiles
    \/ \E n \in raw : HandleNotifyEvent(n)
    \/ \E e \in events : HandleFileChanged(e)
    \/ \E m \in AllMoves : MoveFile(m)
    \/ \E names \in Closable, delete \in BOOLEAN : CloseFiles(names, delete)

Spec == Init /\ [][Next]_vars

(***************************************************************************)
(* Properties                                                              *)
(***************************************************************************)
DocType ==
    [name : Paths \cup {Buffer}, canon : Paths \cup {Buffer}, file : Inodes \cup {NoFile},
     text : Texts, base : Texts, fits : BOOLEAN]

\* The variables have their types; a buffer has no file.
TypeOK ==
    /\ disk \in [Paths -> Inodes \cup {NoFile}] /\ content \in [Inodes -> Texts]
    /\ \A d \in Open : doc[d] \in DocType /\ (doc[d].name = Buffer => doc[d].file = NoFile)
    /\ watched \subseteq Paths
    /\ raw \subseteq [path : Paths, by : Docs \cup {NoEcho}, data : BOOLEAN]
    /\ towatch = <<>> \/ Head(towatch) \subseteq Paths
    /\ \A e \in events : e.path \in Paths /\ e.old \subseteq Open
    /\ window \subseteq Open /\ missed \subseteq Open
    /\ torn \subseteq moved /\ moved \subseteq Open
    /\ opened \in 0 .. MaxDocs
    /\ steps \in 0 .. MaxSteps

\* Nothing is under way to the watcher or from it.
Quiet == towatch = <<>> /\ raw = {} /\ events = {}

\* Once all is reported, what is under the name of a document is what it last
\* read or wrote, and the next save goes there.  A change is missed if it is
\* made before the file is watched or within the 100 ms after a save, if the
\* file is replaced by renaming another onto it, which is no Modify(Data), or
\* by one with the text of the buffer, if it cannot be opened, or if MoveFile
\* brings it where another was deleted (missed).  No change is reported to a
\* document that was moved, and a document that was shared without a handle
\* has none until a reset gives it one.
InSync ==
    Quiet => \A d \in Open :
        doc[d].file # NoFile /\ d \notin missed \cup moved => ~OutOfSync(d, doc[d].name)

\* Two documents never write to one file, but for a document that was moved:
\* a new file under its former path is taken for its own.
HandlesApart ==
    \A d, e \in Open \ moved : d # e /\ doc[d].file # NoFile => doc[d].file # doc[e].file

\* The file that a document writes to is the one under its name.  Exceptions
\* are the former path of a document that was moved, and a document that a
\* MoveFile left behind: because a buffer is open, or because what it moved is
\* the file under the former path, which the document has been reset to.
WritesUnderItsName ==
    \A d \in Open : Under(doc[d].file) \subseteq {doc[d].name, doc[d].canon} \/ d \in torn

\* The echo of a save of a document that reaches the watcher within the
\* 100 ms, however late the host handles it, does not undo the edits made to
\* the document since.
EchoIsIgnored ==
    [][\A e \in events \ events', d \in Open :
         e.by = d /\ doc'[d].name = doc[d].name => doc'[d].text = doc[d].text]_vars
=============================================================================
