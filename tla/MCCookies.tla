----------------------------- MODULE MCCookies -----------------------------
EXTENDS Cookies

Words == {"a", "b", "b#", "1", "2", "2|1", "/", "/p", "site", "www"}
Cut == [t \in Words |-> CASE t = "b#" -> "b" [] t = "2|1" -> "2" [] OTHER -> t]

\* A cookie of the session, one for a second, one with a date for a whole site that the file
\* does not keep for its value, one that another line may stop from being saved, and one of
\* another path that is to be kept.
SomeLines == {
    <<Pair("a", "1")>>,
    <<Pair("a", "2"), Token("max-age", 1)>>,
    <<Pair("a", "2|1"), Token("domain", "site"), Token("expires", 2)>>,
    <<Token("max-age", 2)>>,
    <<Pair("a", "2"), Token("path", "/p"), Token("persistent", TRUE)>>}

\* Without a domain, with a name that is cut, and with a domain.
SomeByHand == {<<Pair("b", "1"), Token("digits", 3)>>,
               <<Pair("b#", "1"), Token("digits", 3)>>,
               <<Pair("a", "1"), Token("domain", "site"), Token("digits", 3)>>}

Site == {"site", "www"}
Subdomains == {<<"www", "site">>}
=============================================================================
