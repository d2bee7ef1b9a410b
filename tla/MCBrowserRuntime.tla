-------------------------- MODULE MCBrowserRuntime --------------------------
(* A small instance of BrowserRuntime for TLC. *)
EXTENDS BrowserRuntime

CONSTANTS p1, p2, c1, b1, b2, b3

TwoPages == {p1, p2}
OneCloser == {c1}
ThreeBrowsers == {b1, b2, b3}
=============================================================================
