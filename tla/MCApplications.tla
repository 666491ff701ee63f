--------------------------- MODULE MCApplications ---------------------------
(* A career of one employer, and two skills one of which names the other.  *)
EXTENDS Applications, TLC

CONSTANTS acme, engineer, lead, built, ran, site, java, javaEE, remote

Hangs == engineer :> acme @@ lead :> acme @@ built :> engineer @@ ran :> engineer

Phrases == {java, javaEE, "Java (25 yrs)"}
Names == java :> {java} @@ javaEE :> {java, javaEE} @@ "Java (25 yrs)" :> {java}
Order == <<java, javaEE>>

Body(bullets, skills) == [bullets |-> bullets, skills |-> skills]
Answers == {Body({javaEE}, {}), Body({javaEE}, {"Java (25 yrs)"}), Body({java}, Nothing)}

Career(rows, links) == [rows |-> rows, links |-> links]
AtFirst == {Career(Row \ {lead, ran}, {<<site, built>>}),
            Career({acme, engineer, built, site}, {}),
            Career({}, {})}

Symmetry == Permutations(Request) \cup Permutations(Text)
=============================================================================
