--------------------------------- MODULE Logos ---------------------------------
(***************************************************************************)
(* A merchant's logos.  The file goes to the object store first; its row   *)
(* is inserted in the transaction that writes the invoice, which may still *)
(* roll back.  A trigger takes the default mark off the other rows, those  *)
(* the inserting statement can see.                                        *)
(***************************************************************************)
EXTENDS Integers, FiniteSets

CONSTANTS
  Uploads,        \* invoices written with a logo of their own
  NoLogo,
  MaxLogoFaults   \* transactions that roll back, deletions of a file that fail

ASSUME LogosAssumption == MaxLogoFaults \in Nat /\ NoLogo \notin Uploads

VARIABLES
  upload,     \* each upload
  files,      \* the object store
  logos,      \* the table logos: the rows, and those with is_default
  latest,     \* the default logo stored last
  together,   \* two transactions were making a default logo at the same time
  logoFaults

logosVars == <<upload, files, logos, latest, together, logoFaults>>
-------------------------------------------------------------------------------
(* An upload: whether it is to be the default, the default rows its insert *)
(* saw, and those of them it has taken the mark from.                      *)
NotUploaded == [phase |-> "idle", default |-> FALSE, sees |-> {}, clears |-> {}]

LogosInit ==
  /\ upload = [u \in Uploads |-> NotUploaded]
  /\ files = {} /\ logos = [rows |-> {}, default |-> {}]
  /\ latest = NoLogo /\ together = FALSE /\ logoFaults = 0

MakingDefault(u) == upload[u].default /\ upload[u].phase \in {"inserting", "inserted"}

LogoFault == logoFaults < MaxLogoFaults /\ logoFaults' = logoFaults + 1
-------------------------------------------------------------------------------
UploadFile(u, default) ==
  /\ upload[u].phase = "idle"
  /\ upload' = [upload EXCEPT ![u].phase = "uploaded", ![u].default = default]
  /\ files' = files \cup {u}
  /\ UNCHANGED <<logos, latest, together, logoFaults>>

(* Mutated form of OtherDefaults: the trigger is missing.                  *)
NoneSeen(u) == {}

(* The rows the trigger's UPDATE looks for, in the snapshot of the insert. *)
OtherDefaults(u) == IF upload[u].default THEN logos.default \ {u} ELSE {}

StartInsert(u) ==
  /\ upload[u].phase = "uploaded"
  /\ upload' = [upload EXCEPT ![u].phase = "inserting", ![u].sees = OtherDefaults(u)]
  /\ together' = (together \/ (upload[u].default /\ \E v \in Uploads \ {u} : MakingDefault(v)))
  /\ UNCHANGED <<files, logos, latest, logoFaults>>

(* It waits for transactions that hold one of the rows, then takes those   *)
(* that still are default.                                                 *)
AddLogoToDatabase(u) ==
  /\ upload[u].phase = "inserting"
  /\ \A v \in Uploads : upload[v].phase = "inserted" => upload[v].clears \cap upload[u].sees = {}
  /\ upload' = [upload EXCEPT ![u].phase = "inserted",
                              ![u].clears = upload[u].sees \cap logos.default]
  /\ UNCHANGED <<files, logos, latest, together, logoFaults>>

(* The row is refused, say as no image: the file is deleted, if that works.*)
InsertRefused(u) ==
  /\ upload[u].phase = "inserting"
  /\ upload' = [upload EXCEPT ![u].phase = "failed"]
  /\ \/ files' = files \ {u} /\ UNCHANGED logoFaults
     \/ LogoFault /\ UNCHANGED files
  /\ UNCHANGED <<logos, latest, together>>

CommitLogo(u) ==
  /\ upload[u].phase = "inserted"
  /\ upload' = [upload EXCEPT ![u].phase = "done"]
  /\ logos' = [rows |-> logos.rows \cup {u},
               default |-> (logos.default \ upload[u].clears)
                             \cup (IF upload[u].default THEN {u} ELSE {})]
  /\ latest' = IF upload[u].default THEN u ELSE latest
  /\ UNCHANGED <<files, together, logoFaults>>

(* A later statement of GenerateNewInvoice or UpdateInvoice fails, or the  *)
(* server stops: the row is gone, the file stays.                          *)
RollBack(u) ==
  /\ LogoFault
  /\ upload[u].phase \in {"uploaded", "inserting", "inserted"}
  /\ upload' = [upload EXCEPT ![u].phase = "failed"]
  /\ UNCHANGED <<files, logos, latest, together>>

LogosNext ==
  \E u \in Uploads :
    \/ \E default \in BOOLEAN : UploadFile(u, default)
    \/ StartInsert(u) \/ AddLogoToDatabase(u) \/ InsertRefused(u)
    \/ CommitLogo(u) \/ RollBack(u)

LogosSpec == LogosInit /\ [][LogosNext]_logosVars
-------------------------------------------------------------------------------
(* The logos an invoice written without one may get: LIMIT 1, no order.    *)
GetDefaultLogoByUserID == logos.default

(* Every logo has its file, and the one an invoice gets by default is the  *)
(* one made the default last, unless two were made the default at the same *)
(* time: the trigger does not see the other's row and both stay.           *)
DefaultLogoIsLatest ==
  /\ logos.rows \subseteq files
  /\ ~together => GetDefaultLogoByUserID = {latest} \ {NoLogo}
=============================================================================
