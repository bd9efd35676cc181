------------------------------ MODULE MCCourse ------------------------------
EXTENDS Course

MCMe == <<"tao">>
MCFar == {<<"ann", "x">>}       \* a username with a hyphen in it
MCNear == {<<"tao", "x">>}      \* one that begins with ours
=============================================================================
