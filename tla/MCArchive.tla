------------------------------ MODULE MCArchive ------------------------------
(***************************************************************************)
(* A small instance of ArchiveFS: three files, and an archive that ends    *)
(* one byte early, just in time, or one byte late.                         *)
(***************************************************************************)
EXTENDS ArchiveFS

MCFileSize == <<1, 2, 1>>
=============================================================================
