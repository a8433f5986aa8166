----------------------------- MODULE LegalDocuments -----------------------------
(***************************************************************************)
(* The Legal Document of one Product and Kind                              *)
(* (application/content/legal_document_service.py and its repository): an  *)
(* effective date, one text per locale, and a recycle bin.  An edit reads, *)
(* writes the texts, writes the date, reads again and commits, while other *)
(* administrators delete and restore the document under it.                *)
(***************************************************************************)
EXTENDS FiniteSets

CONSTANTS Editors,       \* concurrent requests
          DocumentIds,   \* ids for the documents that are created
          Edits,         \* update commands: [date, bodies]
          FirstDate,     \* the date a document is created with
          TextLocales,   \* the active locales
          NoDocument, NoText

BodiesOf(e) == {e.bodies[l] : l \in DOMAIN e.bodies}
DocumentRow ==
  [id : DocumentIds, deleted : BOOLEAN, date : {FirstDate} \cup {e.date : e \in Edits},
   body : [TextLocales -> {NoText} \cup UNION {BodiesOf(e) : e \in Edits}]]

ASSUME EditAssumption == NoText \notin UNION {BodiesOf(e) : e \in Edits} /\ NoDocument \notin DocumentRow

VARIABLES
  document,   \* the committed row with its translations, or NoDocument
  editor,     \* per request, where it is
  spent       \* ids that were given out

legalVars == <<document, editor, spent>>

AtRest == [at |-> "rest"]
Moves(w, what) == editor' = [editor EXCEPT ![w] = what]
Holding(id) == document # NoDocument /\ document.id = id
Standing(id) == Holding(id) /\ ~document.deleted

----------------------------------------------------------------------------
(* Locks.  An update that found the row holds it until its end; the texts  *)
(* hold their own rows, and the document row against a permanent delete.   *)

RowHeld(w) == \E v \in Editors \ {w} : editor[v].at \in {"reread", "commit"} /\ editor[v].found
TextsHeld(w, bodies) ==
  \E v \in Editors \ {w} : editor[v].at \in {"date", "reread", "commit"} /\ DOMAIN editor[v].command.bodies \cap DOMAIN bodies # {}
Referenced == \E v \in Editors : editor[v].at \in {"date", "reread", "commit"}

----------------------------------------------------------------------------
(* create_legal_document: one document per Product and Kind, the binned one *)
(* included; two creates that both saw none meet at the unique constraint.  *)

create_legal_document(w) ==
  /\ editor[w] = AtRest /\ document = NoDocument
  /\ \E id \in DocumentIds \ spent :
       /\ spent' = spent \cup {id}
       /\ Moves(w, [at |-> "insert", id |-> id])
  /\ UNCHANGED document

insert_document(w) ==
  /\ editor[w].at = "insert"
  /\ document' = IF document = NoDocument
                 THEN [id |-> editor[w].id, deleted |-> FALSE, date |-> FirstDate, body |-> [l \in TextLocales |-> NoText]]
                 ELSE document
  /\ Moves(w, AtRest)
  /\ UNCHANGED spent

----------------------------------------------------------------------------
(* update_legal_document.                                                  *)

update_legal_document(w, command) ==
  /\ editor[w] = AtRest
  /\ document # NoDocument /\ Standing(document.id)
  /\ Moves(w, [at |-> "texts", id |-> document.id, command |-> command, found |-> FALSE, restored |-> FALSE])
  /\ UNCHANGED <<document, spent>>

\* Texts are required, each for an active locale; a document that is gone by
\* now fails the foreign key.
upsert_translations(w) ==
  /\ editor[w].at = "texts"
  /\ LET bodies == editor[w].command.bodies
     IN  IF bodies # [l \in {} |-> NoText] /\ DOMAIN bodies \subseteq TextLocales /\ Holding(editor[w].id)
         THEN /\ ~TextsHeld(w, bodies)
              /\ Moves(w, [editor[w] EXCEPT !.at = "date"])
         ELSE Moves(w, AtRest)
  /\ UNCHANGED <<document, spent>>

\* UPDATE ... WHERE NOT is_deleted; how many rows it found is not looked at.
update_document(w) ==
  /\ editor[w].at = "date"
  /\ ~RowHeld(w)
  /\ Moves(w, [editor[w] EXCEPT !.at = "reread", !.found = Standing(editor[w].id)])
  /\ UNCHANGED <<document, spent>>

\* Mutation: the answer is made from the command, without reading again.
read_againNever(w) ==
  /\ editor[w].at = "reread"
  /\ Moves(w, [editor[w] EXCEPT !.at = "commit"])
  /\ UNCHANGED <<document, spent>>

\* A document that is binned by now is 404, and the texts are rolled back.
read_again(w) ==
  /\ editor[w].at = "reread"
  /\ Moves(w, IF Standing(editor[w].id) THEN [editor[w] EXCEPT !.at = "commit"] ELSE AtRest)
  /\ UNCHANGED <<document, spent>>

commit_edit(w) ==
  LET e == editor[w]
      bodies == e.command.bodies
  IN  /\ e.at = "commit"
      /\ document' = [document EXCEPT !.date = IF e.found THEN e.command.date ELSE @,
                                      !.body = [l \in TextLocales |-> IF l \in DOMAIN bodies THEN bodies[l] ELSE @[l]]]
      /\ Moves(w, AtRest)
      /\ UNCHANGED spent

\* An error or a lost connection: PostgreSQL keeps nothing of it.
abort_edit(w) ==
  /\ editor[w] # AtRest
  /\ Moves(w, AtRest)
  /\ UNCHANGED <<document, spent>>

----------------------------------------------------------------------------
(* delete_legal_document reads first; the statement decides.               *)

delete_legal_document(w, permanent) ==
  /\ editor[w] = AtRest /\ document # NoDocument
  /\ permanent \/ ~document.deleted
  /\ Moves(w, [at |-> IF permanent THEN "hard" ELSE "soft", id |-> document.id])
  /\ UNCHANGED <<document, spent>>

delete_soft(w) ==
  /\ editor[w].at = "soft" /\ ~RowHeld(w)
  /\ document' = IF Standing(editor[w].id) THEN [document EXCEPT !.deleted = TRUE] ELSE document
  /\ Moves(w, AtRest)
  /\ UNCHANGED spent

delete_hard(w) ==
  /\ editor[w].at = "hard" /\ ~RowHeld(w) /\ ~Referenced
  /\ document' = IF Holding(editor[w].id) THEN NoDocument ELSE document
  /\ Moves(w, AtRest)
  /\ UNCHANGED spent

restore_legal_documents ==
  /\ document # NoDocument /\ document.deleted
  /\ document' = [document EXCEPT !.deleted = FALSE]
  /\ editor' = [w \in Editors |-> IF "restored" \in DOMAIN editor[w] THEN [editor[w] EXCEPT !.restored = TRUE] ELSE editor[w]]
  /\ UNCHANGED spent

----------------------------------------------------------------------------
LegalInit ==
  /\ document = NoDocument
  /\ editor = [w \in Editors |-> AtRest]
  /\ spent = {}

LegalNext ==
  \/ \E w \in Editors :
       \/ create_legal_document(w) \/ insert_document(w)
       \/ \E command \in Edits : update_legal_document(w, command)
       \/ upsert_translations(w) \/ update_document(w) \/ read_again(w) \/ commit_edit(w) \/ abort_edit(w)
       \/ \E permanent \in BOOLEAN : delete_legal_document(w, permanent)
       \/ delete_soft(w) \/ delete_hard(w)
  \/ restore_legal_documents

LegalSpec == LegalInit /\ [][LegalNext]_legalVars

----------------------------------------------------------------------------
(* Properties.                                                             *)

\* A document in the recycle bin keeps the texts and the date it was deleted
\* with, although an edit that read it before the deletion has written its
\* texts by then and its UPDATE of the date finds no row without saying so.
\* Only an edit during which the document was restored and deleted once more
\* gets past the second read (legal_document_service.update_legal_document).
BinnedKeepsItsText ==
  [][document # NoDocument /\ document' # NoDocument /\ document'.id = document.id /\ document.deleted /\ document'.deleted
       => document' = document \/ \E w \in Editors : editor[w].at = "commit" /\ editor[w].restored]_legalVars
=============================================================================
