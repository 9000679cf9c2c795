----------------------------- MODULE MCTerminal -----------------------------
(* One watcher beside the view, texts that take up to two writes. *)
EXTENDS Terminal
CONSTANT watcher
=============================================================================
