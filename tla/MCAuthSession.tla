--------------------------- MODULE MCAuthSession ---------------------------
EXTENDS AuthSession, TLC

Url(host, port) == [host |-> host, https |-> TRUE, port |-> port, path |-> "/"]
Here      == Url("a", 0)
HereNamed == Url("a", 443)       \* the same URL, its port spelled out
There     == Url("a", 8443)      \* the same host, another origin

AllRefs == {"key", "refresh"}
Under(key, refresh) == [k \in AllRefs |-> IF k = "key" THEN key ELSE refresh]

Material(url, kind, part, expires) ==
    [origin |-> CanonicalOrigin(url), kind |-> kind, parts |-> {part}, expires |-> expires]
Bearer(url, expires) == Material(url, "bearer_token", "bearer", expires)
Cookies(expires)     == Material(Here, "cookie_session", "cookie", expires)

Descriptor(capability, expires, refreshRef, after) ==
    [origin |-> CanonicalOrigin(Here), capability |-> capability, ref |-> "key",
     expires |-> expires, refreshRef |-> refreshRef, refreshAfter |-> after,
     connector |-> capability = "private_workspace"]

SomeDescriptors ==
    { Under(d, Nothing) : d \in { Descriptor("oauth", Never, "refresh", Never),
                                  Descriptor("sso", 2, "refresh", 1),
                                  Descriptor("login_session", Never, Nothing, Never),
                                  Nothing } }

\* a token that expires with a good replacement or one for another origin; cookies
SomeStores ==
    { [credentials |-> Under(c[1], Nothing), refreshed |-> Under(Nothing, c[2])] :
        c \in { <<Bearer(Here, 1), Bearer(Here, 2)>>,
                <<Bearer(Here, 1), Bearer(There, Never)>>,
                <<Cookies(2), Nothing>> } }

Token(t)        == [source |-> Here, action |-> Here, method |-> "POST", token |-> t]
Proposal(csrf)  ==
    [target |-> Here, method |-> "POST", ref |-> "key", csrf |-> csrf,
     approval |-> [target |-> Here, method |-> "POST", granted |-> 0, expires |-> 2]]

SomeProposals == { Under(Proposal(c), Nothing) : c \in {Nothing, Token("t")} }

SomeDestinations == {Here, There}

Field(t, action) == [token |-> t, action |-> action, method |-> "POST"]
Page(fields)     ==
    [forms |-> 1, inputs |-> Cardinality(fields), nested |-> FALSE, repeated |-> FALSE,
     fields |-> fields]

\* a token; a token and one for elsewhere; two tokens
SomePages == { Page({Field("t", HereNamed)}), Page({Field("u", Here), Field("t", There)}),
               Page({Field("t", Here), Field("u", Here)}) }

Job(session, csrf, form) ==
    [session |-> session, embedded |-> FALSE, csrf |-> csrf, form |-> form, crawl |-> FALSE,
     target |-> HereNamed, private |-> FALSE, ref |-> "key", approved |-> TRUE]

SomeJobs ==
    { Job("oauth", FALSE, FALSE),                    \* an API read
      Job("sso", TRUE, TRUE),                        \* a form within a session
      Job("none", TRUE, TRUE),                       \* a login form
      [Job("login_session", FALSE, TRUE) EXCEPT !.approved = FALSE],
      [Job("none", FALSE, TRUE) EXCEPT !.embedded = TRUE],
      [Job("oauth", FALSE, FALSE) EXCEPT !.ref = Nothing],
      [Job("oauth", FALSE, FALSE) EXCEPT !.crawl = TRUE],
      [Job("login_session", FALSE, TRUE) EXCEPT !.crawl = TRUE] }

Interchangeable == Permutations(Runs)
=============================================================================
