------------------------------ MODULE MCViewer ------------------------------
(* Instances of Viewer for TLC: files of the classes a run is about. *)
EXTENDS Viewer

CONSTANTS htmlFile, pdfFile, gifFile, songFile, noteFile
MCClass == [f \in Files |->
    CASE f = htmlFile -> "web" [] f = pdfFile -> "pdf" [] f = gifFile -> "animation" [] f = songFile -> "song" [] f = noteFile -> "note"]
=============================================================================
