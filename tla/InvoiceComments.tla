---------------------------- MODULE InvoiceComments ----------------------------
(***************************************************************************)
(* The discussion of one invoice (internal/invoice_comments): comments,    *)
(* replies and reactions of users and guests.  How it is read, page by     *)
(* page, is one of the Listings.                                           *)
(*                                                                         *)
(* Every request looks at the rows it needs and writes in a statement of   *)
(* its own, with no lock between; foreign keys and unique indexes catch    *)
(* what they can.  A person is known by the email address: with an account *)
(* he signs in, without one he is a guest with an access token.            *)
(***************************************************************************)
EXTENDS Integers

CONSTANTS
  People,        \* email addresses
  Creator,       \* the creator of the invoice, who has an account for good
  Admins,        \* administrators
  MaxComments,   \* the bound on comments ever written
  Clients        \* requests under way at once

ASSUME CommentsAssumption ==
  /\ Creator \in People /\ Admins \subseteq People
  /\ MaxComments \in Nat

VARIABLES
  invoiceThere,  \* the invoice has not been deleted
  comments,      \* table invoice_comments, by number in order of created_at
  written,       \* numbers given so far
  registered,    \* people with an account
  reactions,     \* table comment_reactions, one emoji
  client         \* what each request is at

commentsVars == <<invoiceThere, comments, written, registered, reactions, client>>

Numbers == 1..MaxComments
None == 0
(* parent: parent_comment_id.                                              *)
Comments == [live: BOOLEAN, author: People, parent: 0..MaxComments]
NoComment == [live |-> FALSE, author |-> Creator, parent |-> None]

(* repliesTo: the parent_id of the request.                                *)
IdleClient ==
  [phase |-> "idle", author |-> Creator, guest |-> FALSE, comment |-> None, repliesTo |-> None]

CommentsTypeOK ==
  /\ invoiceThere \in BOOLEAN
  /\ comments \in [Numbers -> Comments]
  /\ written \in 0..MaxComments
  /\ Creator \in registered /\ registered \subseteq People
  /\ reactions \subseteq [comment: Numbers, author: People]
  /\ client \in [Clients -> [phase: {"idle", "create", "update", "delete", "react"},
                             author: People, guest: BOOLEAN,
                             comment: 0..MaxComments, repliesTo: 0..MaxComments]]

CommentsInit ==
  /\ invoiceThere = TRUE
  /\ comments = [c \in Numbers |-> NoComment]
  /\ written = 0
  /\ registered \in {ps \in SUBSET People : Creator \in ps}
  /\ reactions = {}
  /\ client = [r \in Clients |-> IdleClient]

Live == {c \in Numbers : comments[c].live}

(* Only the token of an active account makes a request a user's; without  *)
(* one, or with a bad one, it goes on as a guest's.                        *)
AsGuest(person) == person \notin registered

StartsCall(r, phase, author, c, repliesTo) ==
  /\ client[r].phase = "idle"
  /\ client' = [client EXCEPT ![r] =
       [phase |-> phase, author |-> author, guest |-> AsGuest(author),
        comment |-> c, repliesTo |-> repliesTo]]

(* The foreign key of user_id.                                             *)
AuthorExists(r) == client[r].guest \/ client[r].author \in registered

EndsCall(r) == client' = [client EXCEPT ![r] = IdleClient]
-------------------------------------------------------------------------------
(***************************************************************************)
(* CreateComment: the invoice, the parent and the user are looked up, then *)
(* the row is inserted; created_at is the start of that transaction.       *)
(***************************************************************************)
CreateComment(r, author, repliesTo) ==
  /\ invoiceThere /\ repliesTo \in Live \cup {None}
  /\ written < MaxComments
  /\ written' = written + 1
  /\ StartsCall(r, "create", author, written + 1, repliesTo)
  /\ UNCHANGED <<invoiceThere, comments, registered, reactions>>

(* What is inserted as parent_comment_id.  CreateComment sets the field    *)
(* ParentID, CreateCommentQuery inserts ParentCommentID: a reply is stored *)
(* as a comment of its own, though dto.go:17 has a "Parent comment when    *)
(* this is a reply".                                                       *)
StoredParent(repliesTo) == None

CreateCommentQuery(r) ==
  LET call == client[r] IN
  /\ call.phase = "create"
  /\ invoiceThere /\ AuthorExists(r)
  /\ StoredParent(call.repliesTo) \in Live \cup {None}
  /\ comments' = [comments EXCEPT ![call.comment] =
       [live |-> TRUE, author |-> call.author, parent |-> StoredParent(call.repliesTo)]]
  /\ EndsCall(r)
  /\ UNCHANGED <<invoiceThere, written, registered, reactions>>

(* The errors of every request, and rows that are gone.                    *)
CallFails(r) ==
  /\ client[r].phase # "idle"
  /\ EndsCall(r)
  /\ UNCHANGED <<invoiceThere, comments, written, registered, reactions>>
-------------------------------------------------------------------------------
(* UpdateComment: the author may, by account or by email.  The text is not *)
(* modelled, so nothing is left of the update but that it finds the row.   *)
CanEdit(c, person) == comments[c].author = person

UpdateComment(r, person, c) ==
  /\ c \in Live /\ CanEdit(c, person)
  /\ StartsCall(r, "update", Creator, c, None)
  /\ UNCHANGED <<invoiceThere, comments, written, registered, reactions>>

UpdateCommentQuery(r) ==
  /\ client[r].phase = "update" /\ client[r].comment \in Live
  /\ EndsCall(r)
  /\ UNCHANGED <<invoiceThere, comments, written, registered, reactions>>

(* DeleteComment: also the owner of the invoice, and administrators.  Its  *)
(* handler is written, but RegisterInvoiceCommentRoutes has no route to it.*)
CanDelete(c, person) == CanEdit(c, person) \/ person \in Admins \cup {Creator}

DeleteComment(r, person, c) ==
  /\ c \in Live /\ CanDelete(c, person)
  /\ StartsCall(r, "delete", Creator, c, None)
  /\ UNCHANGED <<invoiceThere, comments, written, registered, reactions>>

RepliesTo(c) == {d \in Live : comments[d].parent = c}

(* A comment and what answers it, by ON DELETE CASCADE.                    *)
Threads(c) ==
  LET down[n \in 0..MaxComments] ==
        IF n = 0 THEN {c} ELSE down[n - 1] \cup UNION {RepliesTo(d) : d \in down[n - 1]}
  IN down[MaxComments]

RemoveComments(gone) ==
  /\ comments' = [c \in Numbers |-> IF c \in gone THEN NoComment ELSE comments[c]]
  /\ reactions' = {x \in reactions : x.comment \notin gone}

DeleteCommentQuery(r) ==
  /\ client[r].phase = "delete" /\ client[r].comment \in Live
  /\ RemoveComments(Threads(client[r].comment))
  /\ EndsCall(r)
  /\ UNCHANGED <<invoiceThere, written, registered>>

(* The invoice is deleted, and its comments with it: the only way comments *)
(* are lost through the routes there are.                                  *)
InvoiceDeleted ==
  /\ invoiceThere
  /\ invoiceThere' = FALSE
  /\ RemoveComments(Live)
  /\ UNCHANGED <<written, registered, client>>
-------------------------------------------------------------------------------
AddReaction(r, author, c) ==
  /\ c \in Live
  /\ StartsCall(r, "react", author, c, None)
  /\ UNCHANGED <<invoiceThere, comments, written, registered, reactions>>

(* Mutated form of CommentExists: the look before the insert decides.      *)
CommentExisted(c) == TRUE

(* The foreign key of comment_reactions.                                   *)
CommentExists(c) == c \in Live

(* INSERT ... ON CONFLICT DO NOTHING.                                      *)
InsertReaction(r) ==
  LET call == client[r] IN
  /\ call.phase = "react"
  /\ AuthorExists(r) /\ CommentExists(call.comment)
  /\ reactions' = reactions \cup {[comment |-> call.comment, author |-> call.author]}
  /\ EndsCall(r)
  /\ UNCHANGED <<invoiceThere, comments, written, registered>>

RemoveReaction(x) ==
  /\ x \in reactions
  /\ reactions' = reactions \ {x}
  /\ UNCHANGED <<invoiceThere, comments, written, registered, client>>

(* An account is deleted: user_id of its comments becomes NULL and the     *)
(* trigger makes them the guest's of that address.  A reaction of its own  *)
(* keeps it: user_id would be NULL there too, against chk_reactor.         *)
DeleteCommenter(p) ==
  /\ p \in registered \ {Creator}
  /\ ~\E x \in reactions : x.author = p
  /\ registered' = registered \ {p}
  /\ UNCHANGED <<invoiceThere, comments, written, reactions, client>>
-------------------------------------------------------------------------------
CallNext(r) ==
  \/ \E p \in People :
       \/ \E c \in 0..MaxComments : CreateComment(r, p, c)
       \/ \E c \in Live : UpdateComment(r, p, c) \/ DeleteComment(r, p, c) \/ AddReaction(r, p, c)
  \/ CreateCommentQuery(r) \/ UpdateCommentQuery(r) \/ DeleteCommentQuery(r)
  \/ InsertReaction(r) \/ CallFails(r)

CommentsNext ==
  \/ \E r \in Clients : CallNext(r)
  \/ \E x \in reactions : RemoveReaction(x)
  \/ \E p \in People : DeleteCommenter(p)
  \/ InvoiceDeleted

CommentsSpec == CommentsInit /\ [][CommentsNext]_commentsVars
-------------------------------------------------------------------------------
(* No reaction is left to a comment that is gone, although a reaction and  *)
(* the deletion of its comment or invoice both look first and write later. *)
ReactionsHaveComments == \A x \in reactions : x.comment \in Live
=============================================================================
