---------------------------- MODULE MCShortLink ----------------------------
(***************************************************************************)
(* Model-checking instances of ShortLink.  Requests, URIs, URLs and groups *)
(* are model values given in the .cfg files.                               *)
(***************************************************************************)
EXTENDS ShortLink

\* Only the default validity type of the factory (ValidTypeTemporary).
MCTemporaryOnly == {"temporary"}
\* Both validity types a create request may ask for.
MCAllValidTypes == {"permanent", "temporary"}
\* Only the permanent validity type.
MCPermanentOnly == {"permanent"}
\* Only SaveToRecycleBin.
MCSaveOnly == {"save"}
\* Only UpdateLink.
MCUpdateOnly == {"update"}
\* Recycle-bin and update commands without the hard delete.
MCSoftOps == {"update", "save", "recover"}
\* Every admin command.
MCAllOps == {"update", "save", "recover", "remove"}
\* A CreateLinkBatch command of two URLs.
MCBatchSizes == {2}
=============================================================================
