--------------------------- MODULE MCVulkanBackend ---------------------------
(* Values of the constants of VulkanBackend for its runs. *)
EXTENDS VulkanBackend
MCImages == 1..3
MCSizes == {"portrait", "landscape"}
MCFronts == {"720p", "tv"}
=============================================================================
