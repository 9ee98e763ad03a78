------------------------------ MODULE MCPages ------------------------------
(***************************************************************************)
(* A realm with a root page and one page that its author may update.  The  *)
(* text "app" has inline scripts around external ones; the others have no  *)
(* scripts.                                                                *)
(***************************************************************************)
EXTENDS Pages

MCScripts(d) ==
    IF d = "app" THEN <<"inline", "external", "inline">> ELSE <<>>

MCAttached(id) == IF id = "home" THEN {"post"} ELSE {}
=============================================================================
