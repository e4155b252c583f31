--------------------------- MODULE MCBrowserPool ---------------------------
(* Small instances of BrowserPool for TLC. *)
EXTENDS BrowserPool

CONSTANTS f1, f2, k1, k2, k3, s1, s2, s3

TwoFetches == {f1, f2}
ThreeKeys == {k1, k2, k3}
ThreeSessions == {s1, s2, s3}
NoneOrAll == {{}, FaultKinds}
=============================================================================
