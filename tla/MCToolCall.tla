------------------------------ MODULE MCToolCall ------------------------------
(* One connector shared by a reader and a writer. *)
EXTENDS ToolCall, TLC

CONSTANTS reader, writer

MCCallers == {reader, writer}
MCWriters == {writer}
=============================================================================
