-------------------------- MODULE MCAcmeRenewal --------------------------
(* Instances of AcmeRenewal: a name and one that is deeper in its zone.    *)
EXTENDS AcmeRenewal

www == <<"www", "example", "org">>
apex == <<"example", "org">>
TwoDomains == {www, apex}
OneZone == {apex}
=============================================================================
