SPECIFICATION Spec
CONSTANTS
    vmlinux = vmlinux
    Default <- vmlinux
    Lists <- MCLists
    Ends = {"cut"}
    BufSize = 7
\* fbt_populate returns after the last line: the terminal state is its return.
CHECK_DEADLOCK FALSE
PROPERTY PopulateTerminates
