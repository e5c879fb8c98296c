--------------------------- MODULE MCPreprocessor ---------------------------
(* Includes in includes, with semicolons optional; one include, perhaps    *)
(* inside parentheses, with semicolons required and a library to restore.  *)
EXTENDS Preprocessor
MCModes == {[semicolons |-> FALSE, compat |-> FALSE, libraries |-> {}],
            [semicolons |-> TRUE, compat |-> TRUE, libraries |-> {"lib"}]}
MCNames == {"a"}
=============================================================================
