--------------------------- MODULE MCSdioDownload ---------------------------
(* Small instances of SdioDownload; the constants are numbers, given in    *)
(* the configuration.                                                      *)
EXTENDS SdioDownload
=============================================================================
