---------------------------- MODULE MCHttpStream ----------------------------
(* Instances of HttpStream for TLC: the scripts of the applications that   *)
(* write, in bytes of a body of at most five.                              *)
EXTENDS HttpStream

\* MAX_FILE_BUFFER_SIZE, scaled down.
FileBuffer == 2

(* A part: a byte of boundary, the file of `size` bytes in `blocks` writes, *)
(* a byte of boundary.                                                     *)
Part(size, blocks) ==
  <<1>> \o [i \in 1 .. blocks |-> 1 + Smaller(i * FileBuffer, size)] \o <<size + 2>>

(* httpd_mime_send_file, `while (!feof(fd))`: fread returns full buffers   *)
(* and then what is left, which is written even if it is nothing.          *)
httpd_mime_send_file(size) == Part(size, size \div FileBuffer + 1)

\* httpc_mime_send_file leaves an empty block out.
httpc_mime_send_file(size) == Part(size, (size + FileBuffer - 1) \div FileBuffer)

\* Documents written in one, two or three calls, or not at all, and files.
Documents == {<< >>, <<3>>, <<1, 3>>, <<2, 4>>, <<1, 2, 3>>, <<0, 2>>}
Files == {httpc_mime_send_file(size) : size \in 0 .. 3}
           \cup {httpd_mime_send_file(size) : size \in 1 .. 3}

RegularScripts == Documents \cup Files

Sizes == {1, 2, 4}

=============================================================================
