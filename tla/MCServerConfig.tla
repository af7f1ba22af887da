--------------------------- MODULE MCServerConfig ---------------------------
(* Instances of ServerConfig for TLC: two selectors with one checksum, one *)
(* project, and resources that between them have every kind of part.       *)
EXTENDS ServerConfig

CONSTANTS s1, s2, s3

MCSelectors == {s1, s2, s3}
MCChecksum(s) == IF s = s3 THEN 2 ELSE 1

T(text) == [text |-> text, secret |-> NoSelector, flags |-> {}]
R(secret) == [text |-> Empty, secret |-> secret, flags |-> {}]
Both(text, secret) == [text |-> text, secret |-> secret, flags |-> {}]
F(flags) == [text |-> Empty, secret |-> NoSelector, flags |-> flags]
P(kind) == <<kind, 1>>

With(parts, headers, port) == [parts |-> parts, headers |-> headers, port |-> port]

\* Two references with one checksum; an annotation of the Service.
Colliding ==
  With(P("apiKey") :> R(s1) @@ P("slack") :> R(s2) @@ <<"annotations">> :> T(Plain)
       @@ <<"podAnnotations">> :> T(Plain),
       {"h"}, 80)

\* Credentials that fall back to a text or are dropped.
Webhooks ==
  With(P("teams") :> Both(Plain, s3) @@ P("pagerduty") :> R(s1)
       @@ P("webhook") :> F({"url", "incidents", "incidentTemplate", "deployments"})
       @@ P("basicAuth") :> [R(s3) EXCEPT !.flags = {"username"}]
       @@ <<"admin">> :> T(Plain),
       {}, 81)

\* The enterprise edition, with everything in Secrets.
Enterprise ==
  With(<<"admin">> :> R(s1) @@ <<"license">> :> R(s2)
       @@ <<"sso">> :> F({"enabled"}) @@ <<"saml">> :> Both(Bad, s3)
       @@ <<"ai">> :> F({"openai"}) @@ <<"openai">> :> R(s1),
       {}, 80)

\* The same in plain text, and wrong; a provider without configuration.
PlainEnterprise ==
  With(<<"license">> :> T(Plain)
       @@ <<"sso">> :> F({"enabled"}) @@ <<"saml">> :> T(Bad)
       @@ <<"ai">> :> F({"anthropic"}) @@ <<"openaiCompatible">> :> R(s1)
       @@ P("opsgenie") :> T(Plain) @@ <<"params">> :> T(Plain),
       {"g", "h"}, 80)

\* An API key that another part refers to as well; no enterprise edition.
SharedKey ==
  With(P("apiKey") :> R(s3) @@ P("slack") :> R(s3)
       @@ P("webhook") :> F({}) @@ P("basicAuth") :> Both(Plain, s1)
       @@ <<"sso">> :> F({"enabled"}) @@ <<"saml">> :> R(s3),
       {}, 80)

\* SSO without SAML.
Unfinished ==
  With(<<"license">> :> R(s3) @@ <<"sso">> :> F({"enabled"}) @@ <<"annotations">> :> T(Plain),
       {"h"}, 81)

MCResources == {Colliding, Webhooks, Enterprise, PlainEnterprise, SharedKey, Unfinished}

Texts3(a, b, c) == s1 :> a @@ s2 :> b @@ s3 :> c

MCSecretStates ==
  {Texts3(Plain, Plain, Plain), Texts3(None, Plain, Plain), Texts3(Plain, None, Bad),
   Texts3(None, None, None), Texts3(Plain, Plain, Empty)}
=============================================================================
