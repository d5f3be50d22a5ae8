--------------------------- MODULE MCPythonClient ---------------------------
(***************************************************************************)
(* One behaviour has one kind of client, chosen at the start: a Python     *)
(* writer, Python readers of two files one of which is written to, or a C  *)
(* program that uses reader handles and cursors directly.                  *)
(***************************************************************************)
EXTENDS PythonWriter, PythonReader

VARIABLE client

clientVars == <<client, writerVars, pythonReaderVars>>

MCLists == {<<2, 3>>, <<2, 1>>, <<3, 4, 5>>, <<6, 7, 8, 9, 10>>}

MCFirstHistory ==
    [f \in Files |-> IF f = PublishedFile THEN << << >> >> ELSE << << >>, <<11, 12>> >>]
MCRanges ==
    {[start |-> 1, end |-> 12], [start |-> 2, end |-> 3], [start |-> 3, end |-> 2]}
MCLibraries ==
    {LookupSymbols \cup CursorSymbols,
     CursorSymbols \cup {"ct_lookup"},
     LookupSymbols \cup {"ct_cursor_state_create", "ct_cursor_state_next"}}

Init ==
    /\ client \in {"python writer", "python reader", "c"}
    /\ PythonWriterInit
    /\ PythonReaderInit
    /\ client # "python reader" => exports = LookupSymbols \cup CursorSymbols

Next ==
    \/ /\ client = "python writer"
       /\ PythonWriterNext
       /\ UNCHANGED <<client, pythonReaderVars>>
    \/ /\ client = "python reader"
       /\ PythonReaderNext
       /\ UNCHANGED <<client, writerVars>>
    \/ /\ client = "c"
       /\ NativeNext
       /\ UNCHANGED <<client, writerVars, exports, readers, iterators, prepared>>

Spec == Init /\ [][Next]_clientVars

Symmetry ==
    Permutations(Series) \cup Permutations(Addresses) \cup Permutations(ReaderObjects)

=============================================================================
