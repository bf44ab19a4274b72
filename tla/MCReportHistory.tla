-------------------------- MODULE MCReportHistory --------------------------
EXTENDS ReportHistory, MCReportPipeline

(* Two spellings of a sender, and one that looks as if it was encoded.     *)
MCSender == [m \in MCMail |-> CASE m.uid = 1 -> "anna" [] m.uid = 2 -> "Anna" [] OTHER -> "%41nna"]
MCLower == [s \in {"anna", "Anna", "%41nna", "%2541nna"} |-> IF s = "Anna" THEN "anna" ELSE s]
Plain == {"anna", "Anna"}
MCEncode == [s \in Plain |-> s] @@ ("%41nna" :> "%2541nna") @@ ("%2541nna" :> "%252541nna")
MCDecode == [s \in Plain |-> s] @@ ("%41nna" :> "Anna") @@ ("%2541nna" :> "%41nna")
              @@ ("%252541nna" :> "%2541nna")
MCDate == [m \in MCMail |-> m.uid]
=============================================================================
