--------------------------- MODULE ConstitutionCheck ---------------------------
(***************************************************************************)
(* constitution-check.py: when a pull request changes CONSTITUTION.md, its *)
(* version must grow, it must be dated, and an accepted ADR the pull       *)
(* request adds must name an article that changed.  Trees are the records  *)
(* of RosterScans, with the sections                                       *)
(*   version    the **Version:** of CONSTITUTION.md (at most one number)   *)
(*   amended    the dates of **Last Amended:**                             *)
(*   articles   <<article, text>> pairs                                    *)
(*   preamble   the text that stands in no article                         *)
(*   adrs       the files of docs/decisions                                *)
(* fork is the merge base of the checkout and the base ref, tip that ref.  *)
(***************************************************************************)
EXTENDS Integers, FiniteSets

NoVersion == 0
version_of(t) == IF t.version = {} THEN NoVersion ELSE CHOOSE v \in t.version : TRUE
version_greater(new, old) == new > old

ConstitutionText(t) == <<t.version, t.amended, t.articles, t.preamble>>

\* Article ids whose text differs or that one side lacks.
changed_articles(old, new) == {a[1] : a \in (new.articles \ old.articles)}
                              \cup ({a[1] : a \in old.articles} \ {a[1] : a \in new.articles})

added_adrs(fork, head) == {a \in head.adrs : \A b \in fork.adrs : <<b.number, b.slug>> # <<a.number, a.slug>>}
AcceptedAdded(fork, head) == {a \in added_adrs(fork, head) : a.status = "accepted"}

constitution_check(fork, tip, head) ==
  IF ConstitutionText(fork) = ConstitutionText(head) THEN {}
  ELSE {v \in {"VERSION", "AMENDED", "NO-ADR", "UNREFERENCED"} :
          CASE v = "VERSION"      -> \/ version_of(head) = NoVersion
                                     \/ /\ version_of(tip) # NoVersion
                                        /\ ~version_greater(version_of(head), version_of(tip))
            [] v = "AMENDED"      -> head.amended = {}
            [] v = "NO-ADR"       -> AcceptedAdded(fork, head) = {}
            [] v = "UNREFERENCED" -> /\ AcceptedAdded(fork, head) # {}
                                     /\ changed_articles(tip, head) # {}
                                     /\ \A a \in AcceptedAdded(fork, head) :
                                          a.articles \cap changed_articles(tip, head) = {}}
================================================================================
