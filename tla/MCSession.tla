----------------------------- MODULE MCSession -----------------------------
EXTENDS Session

AllKinds == {"ping", "protocol", "mpc", "repeat"}
OneEarly == {1}
============================================================================
