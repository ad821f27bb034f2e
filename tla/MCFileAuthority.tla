---------------------------- MODULE MCFileAuthority ---------------------------
(* A small instance of FileAuthority.                                      *)
EXTENDS FileAuthority

===============================================================================
