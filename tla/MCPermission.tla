--------------------------- MODULE MCPermission ----------------------------
EXTENDS Permission

Req(s, pats, always, prot) ==
  [session |-> s, permission |-> "edit", patterns |-> pats, always |-> always,
   protected |-> prot, ruleset |-> <<>>]

(* Two sessions; a plain file, two files at once, and a configuration file, *)
(* which "always" of the first one covers.                                  *)
SomeRequests == {
  Req("s1", {"a"}, <<Star>>, FALSE),
  Req("s1", {"k"}, <<"k">>, TRUE),
  Req("s2", {"a", "b"}, <<"a">>, FALSE) }
============================================================================
