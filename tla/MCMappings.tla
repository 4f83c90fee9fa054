-------------------------------- MODULE MCMappings ------------------------------
EXTENDS Mappings

\* Every server that a mapping was written for.
AllServers ==
  {"clangd", "crystalline", "dart", "expert", "gleam", "gopls", "hls", "haxe", "jdtls", "metals",
   "nextflow", "nil", "nixd", "pyright", "rust-analyzer", "sorbet", "typescript"}

\* Two scripts of one workspace folder, one of them in a directory, and one of no folder.
WorkspaceFiles == {<<"workspace", "main.nf">>, <<"workspace", "lib", "main.nf">>}
StrayFiles == {<<"elsewhere", "main.nf">>}
================================================================================
