------------------------------ MODULE MCMount ------------------------------
(* Two commands at a time and three in all: a mount, and a mount and an      *)
(* umount that race for what it left.                                        *)
EXTENDS Mount
=============================================================================
