----------------------------- MODULE BackOffice -----------------------------
(***************************************************************************)
(* The back-office components that share no state, side by side: the       *)
(* behaviour is about one of them, chosen at the start, and the others     *)
(* rest.                                                                   *)
(***************************************************************************)
EXTENDS Sessions, Consumables, Attachments, CatalogSync, ShopReports, ClientSync

VARIABLE focus

boVars == <<focus, sessionVars, consumableVars, attachmentVars, catalogVars, reportVars,
            clientVars>>

BackOfficeInit ==
    /\ focus \in {"sessions", "consumables", "attachments", "catalog", "floor", "clients"}
    /\ SessionsInit /\ ConsumablesInit /\ AttachmentsInit /\ CatalogInit
    /\ ReportsInit /\ ClientsInit

BackOfficeNext ==
    /\ UNCHANGED focus
    /\ \/ /\ focus = "sessions" /\ SessionsNext
          /\ UNCHANGED <<consumableVars, attachmentVars, catalogVars, reportVars, clientVars>>
       \/ /\ focus = "consumables" /\ ConsumablesNext
          /\ UNCHANGED <<sessionVars, attachmentVars, catalogVars, reportVars, clientVars>>
       \/ /\ focus = "attachments" /\ AttachmentsNext
          /\ UNCHANGED <<sessionVars, consumableVars, catalogVars, reportVars, clientVars>>
       \/ /\ focus = "catalog" /\ CatalogNext
          /\ UNCHANGED <<sessionVars, consumableVars, attachmentVars, reportVars, clientVars>>
       \/ /\ focus = "floor" /\ ReportsNext
          /\ UNCHANGED <<sessionVars, consumableVars, attachmentVars, catalogVars, clientVars>>
       \/ /\ focus = "clients" /\ ClientsNext
          /\ UNCHANGED <<sessionVars, consumableVars, attachmentVars, catalogVars, reportVars>>

BackOfficeSpec == BackOfficeInit /\ [][BackOfficeNext]_boVars

\* The types of the state of the component the behaviour is about.
TypesOK ==
    CASE focus = "sessions" -> SessionsTyped
      [] focus = "consumables" -> ConsumablesTyped
      [] focus = "attachments" -> AttachmentsTyped
      [] focus = "catalog" -> CatalogTyped
      [] focus = "floor" -> ReportsTyped
      [] focus = "clients" -> ClientsTyped

\* What the timeline, the boards and the bandings of the shop floor read in the
\* production reports agrees with itself and with the registered rows, whatever
\* order the requests came in; and each blade is dealt the work done in its life.
FloorFiguresAgree == (focus = "floor" => ReportsAgree) /\ LivesShareTheWork
=============================================================================
