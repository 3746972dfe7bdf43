--------------------------- MODULE MCClientSetup ---------------------------
EXTENDS ClientSetup

\* Half of the texts: the login and the certificate are handled apart from each other.
SomeTexts == {u \in Uri : u.login = u.cacert}
=============================================================================
