-------------------------- MODULE MCTaskLifecycle --------------------------
(* What a command may upload: no file, one or two. *)
EXTENDS TaskLifecycle
CONSTANTS w1, w2, fa, fb
MCUploads == {<<>>, <<fa>>, <<fa, fb>>}
=============================================================================
