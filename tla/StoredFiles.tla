----------------------------- MODULE StoredFiles ------------------------------
(***************************************************************************)
(* Rows that point to files in the object store: src/src/storage, and the  *)
(* handlers that use it for photos (users, student and teacher profiles),  *)
(* academic notes, document templates, documents that are uploaded, the    *)
(* attachments of a portfolio or achievement entry, admission documents    *)
(* and acceptance letters.                                                 *)
(*                                                                         *)
(* A file is stored, replaced or deleted in one await and the row written  *)
(* in another.  A behaviour is about the rows of one kind; those of kind   *)
(* attachment belong to one entry, which is open until it is removed.  One *)
(* file may serve several rows: a note for several students has one, a     *)
(* document keeps the name its uploader gave it, which another may have,   *)
(* a letter has the number of its application, which may be repeated, and  *)
(* an account takes any address as that of its avatar.                     *)
(*                                                                         *)
(* History variables, never read by the actions: torn, the rows whose file *)
(* a lost or failed request, or one on another row, has taken away or      *)
(* overwritten, and the accounts given an address where nothing is stored  *)
(* for them; leaked, the objects that a lost or overtaken request left, or *)
(* whose row was signed, given another address or deleted.                 *)
(***************************************************************************)
EXTENDS Requests

CONSTANTS
    Owners,         \* rows that may point to a file
    Files,          \* keys in the object store
    NoFile          \* the row points to no file (or there is no row)

Kinds ==
    {"avatar", "photo", "note", "template", "document", "admission", "attachment", "letter"}

FileOps == {"replace", "store", "unset", "erase"}

FileRequest ==
    [op: FileOps,
     step: {"upload", "uploadNamed", "delete", "deleteLast", "deleteAll", "write", "erase"},
     owners: SUBSET Owners, old: Files \cup {NoFile}, new: Files \cup {NoFile}]

ASSUME StoredFilesAssumption == NoFile \notin Files /\ NoRequest \notin FileRequest

VARIABLES
    fileKind,       \* Kinds: it never changes
    file,           \* [Owners -> Files \cup {NoFile}], the rows
    stored,         \* [Files -> SUBSET Owners], for which rows an object was stored; {}: no object
    open,           \* BOOLEAN, the entry of the attachments exists
    removed,        \* SUBSET Owners, profiles deleted for good
    torn, leaked

filesVars == <<req, fileKind, file, stored, open, removed, torn, leaked>>

-----------------------------------------------------------------------------
PointTo(f) == {o \in Owners : file[o] = f}

\* Requests on a row that have yet to write it.
Writing(o) == {w \in Workers : req[w] # NoRequest /\ o \in req[w].owners}

\* Keys with a random name are new.
NewKeys ==
    {f \in Files : /\ stored[f] = {} /\ PointTo(f) = {}
                   /\ \A v \in Workers : req[v] # NoRequest => f \notin {req[v].new, req[v].old}}

\* Nobody else's: the object, the rows and the requests of f are those of os.
OwnKey(os, f) ==
    /\ stored[f] \cup PointTo(f) \subseteq os
    /\ \A v \in Workers : req[v] # NoRequest /\ f \in {req[v].new, req[v].old} => req[v].owners \subseteq os

\* The keys an upload may get: a letter's is the number of its application, which another
\* may have (Registration); an uploaded document keeps the name of the file, and a signed one
\* the name it had, with a suffix.
Key(q, f) ==
    \/ q.step = "upload" /\ NewKeys # {} /\ f = AnyOf(NewKeys)
    \/ /\ q.step = "uploadNamed" /\ fileKind = "letter"
       /\ \A o \in q.owners : /\ file[o] \in {f, NoFile}
                             /\ \A g \in Files : o \in stored[g] => g = f
    \/ /\ q.step = "uploadNamed" /\ fileKind = "document"
       /\ q.op = "replace" => OwnKey(q.owners, f)

BeginFile(w, op, os, old, step) ==
    /\ Begin(w, [op |-> op, step |-> step, owners |-> os, old |-> old, new |-> NoFile])
    /\ UNCHANGED <<fileKind, file, stored, open, removed, torn, leaked>>

-----------------------------------------------------------------------------
(* What the handlers begin with *)

\* A file for new rows.
Store(w, os, step) ==
    /\ \A o \in os : file[o] = NoFile /\ Writing(o) = {}
    /\ BeginFile(w, "store", os, NoFile, step)

\* The row exists, with or without a file: nobody is about to make it.
Existing(o) == \A v \in Writing(o) : req[v].op # "store"

\* Another file for the row, the old one deleted first.
ReplaceDeleting(w, o) ==
    /\ Existing(o)
    /\ BeginFile(w, "replace", {o}, file[o], IF file[o] = NoFile THEN "upload" ELSE "delete")

\* No file for the row any more.
Unset(w, o) ==
    /\ Existing(o)
    /\ BeginFile(w, "unset", {o}, file[o], IF file[o] = NoFile THEN "write" ELSE "deleteLast")

updateAvatar(w, o) == fileKind = "avatar" /\ ReplaceDeleting(w, o)

\* Of a student or teacher profile.
updatePhoto(w, o) == fileKind = "photo" /\ o \notin removed /\ ReplaceDeleting(w, o)

createNotes(w, os) == fileKind = "note" /\ os # {} /\ Store(w, os, "upload")

updateFile(w, o) == fileKind = "note" /\ ReplaceDeleting(w, o)

removeFile(w, o) == fileKind = "note" /\ Unset(w, o)

createTemplate(w, o) == fileKind = "template" /\ Store(w, {o}, "upload")

\* The new file first.
updateTemplate(w, o) ==
    /\ fileKind = "template" /\ file[o] # NoFile
    /\ BeginFile(w, "replace", {o}, file[o], "upload")

removeTemplate(w, o) == fileKind = "template" /\ file[o] # NoFile /\ Unset(w, o)

\* From a template: the name has a random part.
createDocument(w, o) == fileKind = "document" /\ Store(w, {o}, "upload")

createByUpload(w, o) == fileKind = "document" /\ Store(w, {o}, "uploadNamed")

\* Approval of a document whose template has the signature: the one without stays stored.
signDocument(w, o) ==
    /\ fileKind = "document" /\ file[o] # NoFile
    /\ BeginFile(w, "replace", {o}, NoFile, "uploadNamed")

addDocumentFile(w, o) == fileKind = "admission" /\ Store(w, {o}, "upload")

\* Nothing is deleted: the key is the same again.
issueLetter(w, o) ==
    /\ fileKind = "letter"
    /\ BeginFile(w, "replace", {o}, NoFile, "uploadNamed")

addAttachment(w, o) == fileKind = "attachment" /\ open /\ Store(w, {o}, "upload")

removeAttachment(w, o) == fileKind = "attachment" /\ file[o] # NoFile /\ Unset(w, o)

\* The attachments it has are read.
removeEntry(w) ==
    /\ fileKind = "attachment" /\ open
    /\ BeginFile(w, "erase", {o \in Owners : file[o] # NoFile}, NoFile, "deleteAll")

-----------------------------------------------------------------------------
(* The awaits *)

\* storage.upload: PutObject replaces what is there.
Upload(w, f) ==
    LET q == req[w] IN
    /\ At(w, FileOps, "upload") \/ At(w, FileOps, "uploadNamed")
    /\ Key(q, f)
    /\ stored' = [stored EXCEPT ![f] = q.owners]
    /\ torn' = torn \cup (PointTo(f) \ q.owners)
    /\ req' = [req EXCEPT ![w].new = f, ![w].step =
                 IF fileKind = "template" /\ q.old # NoFile THEN "delete" ELSE "write"]
    /\ UNCHANGED <<fileKind, file, open, removed, leaked>>

\* Mutant: updateAvatar keeps the old file.
KeepOld(w) ==
    /\ \/ At(w, FileOps, "delete") /\ Goto(w, IF req[w].new = NoFile THEN "upload" ELSE "write")
       \/ At(w, FileOps, "deleteLast") /\ Goto(w, "write")
    /\ UNCHANGED <<fileKind, file, stored, open, removed, torn, leaked>>

\* storage.delete of the file that was read; any other row that has it loses it too.
Delete(w) ==
    LET q == req[w] IN
    /\ \/ At(w, FileOps, "delete") /\ Goto(w, IF q.new = NoFile THEN "upload" ELSE "write")
       \/ At(w, FileOps, "deleteLast") /\ Goto(w, "write")
    /\ stored' = [stored EXCEPT ![q.old] = {}]
    /\ torn' = torn \cup (PointTo(q.old) \ q.owners)
    /\ UNCHANGED <<fileKind, file, open, removed, leaked>>

\* All the files of an entry; one that cannot be deleted does not stop the others.
DeleteAll(w) ==
    LET q == req[w] IN
    /\ At(w, FileOps, "deleteAll")
    /\ \E kept \in SUBSET {file[o] : o \in {x \in q.owners : file[x] # NoFile}} :
          /\ stored' = [f \in Files |-> IF \E o \in q.owners : file[o] = f /\ f \notin kept
                                        THEN {} ELSE stored[f]]
          /\ leaked' = leaked \cup kept
    /\ Goto(w, "erase")
    /\ UNCHANGED <<fileKind, file, open, removed, torn>>

\* The row, or the rows that are made, point to the new file, or to none.  An attachment
\* needs its entry, a photo its profile.  What another request stored for the row meanwhile has no owner left.
WriteFile(w) ==
    LET q == req[w]
        lost == {file[o] : o \in q.owners} \ {q.old, NoFile, q.new}
    IN
    /\ At(w, FileOps, "write")
    /\ fileKind = "attachment" /\ q.new # NoFile => open
    /\ q.owners \cap removed = {}
    /\ file' = [o \in Owners |-> IF o \in q.owners THEN q.new ELSE file[o]]
    /\ leaked' = leaked \cup lost
    /\ torn' = IF q.new = NoFile \/ q.owners \subseteq stored[q.new]
                THEN torn \ q.owners ELSE torn \cup q.owners
    /\ Done(w)
    /\ UNCHANGED <<fileKind, stored, open, removed>>

\* The row of an entry: the database keeps it while it has attachments.
EraseEntry(w) ==
    /\ At(w, FileOps, "erase")
    /\ \/ /\ \A o \in Owners : file[o] = NoFile
          /\ open' = FALSE /\ UNCHANGED torn
       \/ /\ \E o \in Owners : file[o] # NoFile
          /\ torn' = torn \cup {o \in Owners : file[o] # NoFile} /\ UNCHANGED open
    /\ Done(w)
    /\ UNCHANGED <<fileKind, file, stored, removed, leaked>>

\* create or update of a user, or a registration: any address, or none, in one write.
setAvatarUrl(o, f) ==
    /\ fileKind = "avatar" /\ f # file[o]
    /\ file' = [file EXCEPT ![o] = f]
    /\ torn' = IF f = NoFile \/ o \in stored[f] THEN torn \ {o} ELSE torn \cup {o}
    /\ leaked' = leaked \cup ({file[o]} \ {NoFile})
    /\ UNCHANGED <<req, fileKind, stored, open, removed>>

\* The row of a student is deleted, and its photo left in the store.
removeProfile(o) ==
    /\ fileKind = "photo" /\ o \notin removed
    /\ removed' = removed \cup {o}
    /\ file' = [file EXCEPT ![o] = NoFile]
    /\ leaked' = leaked \cup ({file[o]} \ {NoFile})
    /\ UNCHANGED <<req, fileKind, stored, open, torn>>

\* The process dies, the store or the database does not answer, or the row is not there.
LoseFileRequest(w) ==
    LET q == req[w] IN
    /\ q # NoRequest
    /\ torn' = torn \cup q.owners
    /\ leaked' = leaked \cup ({q.new, q.old} \ {NoFile})
    /\ Done(w)
    /\ UNCHANGED <<fileKind, file, stored, open, removed>>

-----------------------------------------------------------------------------
FilesInit ==
    /\ req = Idle
    /\ fileKind \in Kinds
    /\ file = [o \in Owners |-> NoFile]
    /\ stored = [f \in Files |-> {}]
    /\ open = TRUE /\ removed = {}
    /\ torn = {} /\ leaked = {}

FilesNext ==
    \/ \E o \in Owners :
          \/ \E f \in Files \cup {NoFile} : setAvatarUrl(o, f)
          \/ removeProfile(o)
    \/ \E w \in Workers :
        \/ \E o \in Owners :
              \/ updateAvatar(w, o) \/ updatePhoto(w, o)
              \/ updateFile(w, o) \/ removeFile(w, o)
              \/ createTemplate(w, o) \/ updateTemplate(w, o) \/ removeTemplate(w, o)
              \/ createDocument(w, o) \/ createByUpload(w, o) \/ signDocument(w, o)
              \/ addDocumentFile(w, o) \/ issueLetter(w, o)
              \/ addAttachment(w, o) \/ removeAttachment(w, o)
        \/ \E os \in SUBSET Owners : createNotes(w, os)
        \/ removeEntry(w)
        \/ \E f \in Files : Upload(w, f)
        \/ Delete(w)
        \/ DeleteAll(w)
        \/ WriteFile(w)
        \/ EraseEntry(w)
        \/ LoseFileRequest(w)

FilesSpec == FilesInit /\ [][FilesNext]_filesVars

-----------------------------------------------------------------------------
\* Every variable keeps its type.
FilesTypeOK ==
    /\ req \in [Workers -> FileRequest \cup {NoRequest}]
    /\ fileKind \in Kinds
    /\ file \in [Owners -> Files \cup {NoFile}]
    /\ stored \in [Files -> SUBSET Owners]
    /\ open \in BOOLEAN /\ removed \subseteq Owners
    /\ torn \subseteq Owners /\ leaked \subseteq Files

\* A row points to a file that is there and was stored for it, while no request is at work
\* on the row: unless one was lost in between, another row shared the file and replaced it,
\* its entry was to be removed, or its address was given by hand.  And an object in the store
\* is that of a row, or of a request in flight, unless one was lost or overtaken, or the row
\* has since been signed, given an address by hand or deleted.
FilesKept ==
    /\ \A o \in Owners \ torn :
          file[o] # NoFile /\ Writing(o) = {} => o \in stored[file[o]]
    /\ \A f \in Files \ leaked :
          stored[f] # {} => \/ PointTo(f) # {}
                            \/ \E w \in Workers : req[w] # NoRequest /\ req[w].new = f
=============================================================================
