--------------------------- MODULE MCAuthorization ---------------------------
(* Small instances of Authorization for TLC.                               *)
EXTENDS Authorization, TLC

CONSTANTS d1, d2, standing, eligibility, registry, governance,
          s1, e1, e2, g1

\* Version 1 asks for both facts, for one of them twice, and was forked by a
\* definition that asks for less; version 2 is switched off.
Installed ==
  {[version |-> 1, requires |-> <<eligibility, standing, eligibility>>, active |-> TRUE],
   [version |-> 1, requires |-> <<standing>>, active |-> TRUE],
   [version |-> 2, requires |-> <<eligibility>>, active |-> FALSE]}

\* The predicate denies who is not eligible, and throws on a standing that it
\* does not expect.
AllGood(c, fs) ==
  LET amiss == {f \in {c.requires[i] : i \in DOMAIN c.requires} :
                  fs[f] = Unread \/ fs[f].value = "bad"}
  IN  IF amiss = {} THEN "allow" ELSE
      IF standing \in amiss THEN "throws" ELSE "deny"
EligibleOnly == [f \in FactTypes |-> IF f = standing THEN "bad" ELSE "good"]
EligibilityWired == [f \in FactTypes |-> IF f = eligibility THEN e1 ELSE Nobody]
\* The registry has two providers of a partner's eligibility, governance offers
\* one too.
Reports == [p \in Providers |-> IF p = s1 THEN standing ELSE eligibility]
Owner == [p \in Providers |-> IF p \in {s1, g1} THEN governance ELSE registry]
NoSlack == [d \in Decisions |-> 0]
==============================================================================
