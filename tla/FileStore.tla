-------------------------------- MODULE FileStore --------------------------------
(***************************************************************************)
(* Files behind their table, the blob store and the cache of signed urls   *)
(* (application/content).  The store and Redis do not take part in the     *)
(* transaction of a request: what a request does to them stays when it is  *)
(* rolled back, and is visible before it commits.                          *)
(***************************************************************************)
EXTENDS Naturals, FiniteSets

CONSTANTS Files,      \* file ids, one per upload
          Contents,   \* file contents, told apart by their checksums
          Uploaders,  \* concurrent requests
          NoFile      \* no row

FileRow == [status : {"uploading", "uploaded", "deleted"}, content : Contents]

ASSUME FileAssumption == NoFile \notin FileRow

VARIABLES
  file,      \* committed content.file rows: NoFile or [status, content]
  objects,   \* files with an object in the blob store
  gallery,   \* content.file_association rows of one room
  urls,      \* files with a cached signed url
  request,   \* per request, what its transaction will commit
  damaged    \* history: files whose transaction was lost after a storage call

fileVars == <<file, objects, gallery, urls, damaged>>
storeVars == <<fileVars, request>>

Free == [pc |-> "idle"]
Ends(t) == request' = [request EXCEPT ![t] = Free]
Holds(t, what) == request' = [request EXCEPT ![t] = what]

-----------------------------------------------------------------------------
(* Files.                                                                  *)

_check_duplicate(c) == \E g \in Files : file[g] # NoFile /\ file[g].status # "deleted" /\ file[g].content = c

\* The row is inserted with status UPLOADING, invisible until the commit.
upload_file(t, f, c, check_duplicates, batch) ==
  /\ request[t] = Free /\ file[f] = NoFile /\ f \notin objects
  /\ \A x \in Uploaders : request[x].pc \in {"put", "uploaded"} => request[x].f # f
  /\ ~(check_duplicates /\ _check_duplicate(c))
  /\ Holds(t, [pc |-> "put", f |-> f, content |-> c, batch |-> batch])
  /\ UNCHANGED fileVars

\* The object is stored; then the status changes.
put_object(t) ==
  LET r == request[t] IN
  /\ r.pc = "put"
  /\ objects' = objects \cup {r.f}
  /\ Holds(t, [pc |-> "uploaded", f |-> r.f, row |-> [status |-> "uploaded", content |-> r.content]])
  /\ UNCHANGED <<file, gallery, urls, damaged>>

\* Mutation: a failed upload is stored as if it had succeeded.
put_object_failsUnnoticed(t) ==
  LET r == request[t] IN
  /\ r.pc = "put"
  /\ Holds(t, [pc |-> "uploaded", f |-> r.f, row |-> [status |-> "uploaded", content |-> r.content]])
  /\ UNCHANGED fileVars

\* The store fails.  A single upload is rolled back; a batch swallows the
\* error and commits the row as it is.
put_object_fails(t) ==
  LET r == request[t] IN
  /\ r.pc = "put"
  /\ IF r.batch
       THEN Holds(t, [pc |-> "uploaded", f |-> r.f, row |-> [status |-> "uploading", content |-> r.content]])
       ELSE Ends(t)
  /\ UNCHANGED fileVars

commit_upload(t) ==
  /\ request[t].pc = "uploaded"
  /\ file' = [file EXCEPT ![request[t].f] = request[t].row]
  /\ Ends(t)
  /\ UNCHANGED <<objects, gallery, urls, damaged>>

\* The commit is lost: an object without a row remains.
rollback_upload(t) ==
  /\ request[t].pc = "uploaded"
  /\ damaged' = damaged \cup {request[t].f}
  /\ Ends(t)
  /\ UNCHANGED <<file, objects, gallery, urls>>

\* Objects go first, one by one; an object that is not there cannot be
\* deleted.  Rows, associations and urls follow for those that went.
delete_files(t, fs, gone) ==
  /\ request[t] = Free
  /\ gone # {} /\ gone \subseteq fs /\ gone \subseteq objects
  /\ \A f \in fs : file[f] # NoFile
  /\ objects' = objects \ gone
  /\ urls' = urls \ gone
  /\ Holds(t, [pc |-> "deleted", files |-> gone, seen |-> gallery \cap gone])
  /\ UNCHANGED <<file, gallery, damaged>>

commit_delete(t) ==
  LET r == request[t] IN
  /\ r.pc = "deleted"
  /\ file' = [f \in Files |-> IF f \in r.files THEN [file[f] EXCEPT !.status = "deleted"] ELSE file[f]]
  /\ gallery' = gallery \ r.seen
  /\ Ends(t)
  /\ UNCHANGED <<objects, urls, damaged>>

rollback_delete(t) ==
  /\ request[t].pc = "deleted"
  /\ damaged' = damaged \cup request[t].files
  /\ Ends(t)
  /\ UNCHANGED <<file, objects, gallery, urls>>

\* A room's gallery: the files must exist when they are looked up.
_replace_gallery(t, fs) ==
  /\ request[t] = Free
  /\ \A f \in fs : file[f] # NoFile /\ file[f].status # "deleted"
  /\ Holds(t, [pc |-> "gallery", files |-> fs])
  /\ UNCHANGED fileVars

replace_associations(t) ==
  /\ request[t].pc = "gallery"
  /\ gallery' = request[t].files
  /\ Ends(t)
  /\ UNCHANGED <<file, objects, urls, damaged>>

\* A signed url: row read, url made, url cached for its own lifetime.
get_signed_url(t, f) ==
  /\ request[t] = Free /\ f \notin urls
  /\ file[f] # NoFile /\ file[f].status # "deleted"
  /\ Holds(t, [pc |-> "url", f |-> f])
  /\ UNCHANGED fileVars

set_signed_url(t) ==
  /\ request[t].pc = "url"
  /\ urls' = urls \cup {request[t].f}
  /\ Ends(t)
  /\ UNCHANGED <<file, objects, gallery, damaged>>

\* SETEX: Redis drops the url when its signature runs out.
expire_url(f) ==
  /\ f \in urls
  /\ urls' = urls \ {f}
  /\ UNCHANGED <<file, objects, gallery, damaged, request>>

-----------------------------------------------------------------------------
StoreInit ==
  /\ file = [f \in Files |-> NoFile] /\ objects = {} /\ gallery = {} /\ urls = {} /\ damaged = {}
  /\ request = [t \in Uploaders |-> Free]

FileStep(t) ==
  \/ \E f \in Files, c \in Contents, check, batch \in BOOLEAN : upload_file(t, f, c, check, batch)
  \/ put_object(t) \/ put_object_fails(t) \/ commit_upload(t) \/ rollback_upload(t)
  \/ \E fs, gone \in SUBSET Files : delete_files(t, fs, gone)
  \/ commit_delete(t) \/ rollback_delete(t)
  \/ \E fs \in SUBSET Files : _replace_gallery(t, fs)
  \/ replace_associations(t)
  \/ \E f \in Files : get_signed_url(t, f)
  \/ set_signed_url(t)

StoreNext ==
  \/ \E t \in Uploaders : FileStep(t)
  \/ \E f \in Files : expire_url(f)

StoreSpec == StoreInit /\ [][StoreNext]_storeVars

-----------------------------------------------------------------------------
(* Properties.                                                             *)

\* Outside requests in progress, and files whose transaction was lost after
\* the storage call, the table lists a file as uploaded exactly when its
\* object is stored (file_service.upload_file, delete_files).
StoreAndTableAgree ==
  \A f \in Files :
    \/ f \in damaged
    \/ \E t \in Uploaders : \/ request[t].pc \in {"put", "uploaded"} /\ request[t].f = f
                            \/ request[t].pc = "deleted" /\ f \in request[t].files
    \/ (file[f] # NoFile /\ file[f].status = "uploaded") <=> f \in objects
=============================================================================
