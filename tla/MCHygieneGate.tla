----------------------------- MODULE MCHygieneGate -----------------------------
(***************************************************************************)
(* An instance of HygieneGate on a repository of a few files that passes   *)
(* every scan, and pushes that break one scan, that mend another push, or  *)
(* that are harmless alone and break a scan together.                      *)
(***************************************************************************)
EXTENDS HygieneGate, Selftest, TLC

CONSTANTS p1, p2

MCPullRequests == {p1, p2}
PullRequestSymmetry == Permutations(MCPullRequests)

GridFile == <<"src", "kernel", "grid.hpp">>
OracleFile == <<"test", "oracle", "oracle.hpp">>
HandMade == RateFixture(1, "rate", "rate/hand")
DerivedOne == [RateFixture(2, "derived", "rate/derived") EXCEPT !.derived_by = "tool@1"]

MCFirstTree ==
  Tree([rows |-> {MetaRow("chronoduck_version"), RateRow},
        sqlTests |-> {"chronoduck_version", "ts_rate"},
        registered |-> {[file |-> "src/chronoduck_extension.cpp", within |-> n] :
                          n \in {"chronoduck_version", "ts_rate"}},
        examples |-> {RateShape}, shapes |-> {RateShape},
        parityCites |-> {"ts_rate"}, parity |-> {"ts_rate"},
        fixtures |-> {HandMade, DerivedOne}, roster |-> {"rate/hand", "rate/derived"},
        manifest |-> {"rate/derived"}, tool |-> {"tool@1"},
        primitives |-> {<<0, "grid">>}, tierCites |-> {<<0, "grid">>}, floor |-> {<<0, 1>>},
        kernelTests |-> {"grid_test"},
        files |-> {File(GridFile), File(OracleFile), File(<<"docs", "a.md">>), File(<<"docs", "b.md">>)},
        jobs |-> {[id |-> "hygiene", workflow |-> 1, own |-> TRUE, uses |-> FALSE,
                   steps |-> {[run |-> "make", extra |-> FALSE]}, tolerated |-> FALSE]},
        lanes |-> {<<"hygiene", 1>>},
        adrs |-> {Template, FirstAdr}, description |-> RequiredKeys,
        version |-> {100}, amended |-> {"2026-09-05"}, articles |-> {<<"I", "old">>, <<"II", "old">>}])

NewAdr(slug, article) == <<"adrs", Adr(2, slug, "accepted", TRUE, {article})>>
Amendment(article) == {<<"articles", <<article, "old">>>>, <<"articles", <<article, "new">>>>}
Bump == {<<"version", 100>>, <<"version", 110>>}

DropHandMade == {<<"fixtures", HandMade>>, <<"roster", "rate/hand">>}
DropDerived == {<<"fixtures", DerivedOne>>, <<"roster", "rate/derived">>, <<"manifest", "rate/derived">>}
BreakKernel == {<<"failing", 1>>}
RatifyFirst == {NewAdr("first-article", "I")}
AmendFirst == Amendment("I") \cup Bump
AmendSecondRatified == Amendment("II") \cup Bump \cup {NewAdr("second-article", "II")}
AmendFirstQuietly == Amendment("I") \cup RatifyFirst
DropPage == {<<"files", File(<<"docs", "b.md">>)>>}
LinkPage == {<<"links", [file |-> <<"docs", "a.md">>, to |-> <<"docs", "b.md">>, anchor |-> None]>>}
CiteIssue == {<<"files", Mark(GridFile, "todo", "7", ".hpp")>>}

MCChanges == {DropHandMade, DropDerived, BreakKernel, RatifyFirst, AmendFirst, AmendSecondRatified,
              AmendFirstQuietly, DropPage, LinkPage, CiteIssue}
================================================================================
